---- MODULE Spec2Model ----
(***************************************************************************)
(* Model of the section-transform pipeline of the Wikipedia proxy          *)
(* (src/src/html_processing.py): segmenter, classifier, batch codec,       *)
(* dispatcher and reassembler.                                             *)
(*                                                                         *)
(* HTML text is a sequence of tokens.  A token is a record [k, n]; the     *)
(* substring operations of the code (in, find, split, slicing) are         *)
(* modelled on token sequences, the separators being token sequences too.  *)
(***************************************************************************)
EXTENDS Integers, Sequences, FiniteSets, TLC

VARIABLES
    \* the codec on its own
    cparts, cn, cresp, cout, cpc,
    \* process_html
    ph_pc,          \* "idle", "called", "piping", "returned" or "raised"
    content_type,   \* the content type header, "None" if there is none
    path,           \* the request path
    content,        \* the bytes of the page around the content container
    html_string,    \* the text handed to the pipeline
    ph_out,         \* what process_html returned
    pipe_runs,      \* how often the pipeline was entered
    \* rewrite_urls called on its own
    u_pc,           \* "idle", "called", "returned" or "raised"
    u_content,      \* the bytes given
    u_type,         \* the content type given
    u_out,          \* the bytes returned
    \* the handler proxy(path) of the web application
    px_pc,          \* "idle", "called", "fetching", "responded" or "raised"
    px_path,        \* the path of the request
    px_query,       \* request.query_string
    px_llm,         \* ENABLE_LLM_REWRITE with a client at hand
    px_fetched,     \* the URLs given to requests.get, in the order fetched
    px_upstream,    \* what requests.get returned, or that it raised
    px_response,    \* what the handler returned
    \* llm.py: the client and calculate_max_tokens
    async_client,   \* _async_client: 0 for None, or the instance it holds
    constructions,  \* how many times AsyncAnthropic(...) has made an instance
    client_returns, \* per call of get_async_client that returned: caller, instance
    mt_pc,          \* calculate_max_tokens: "idle", "called" or "returned"
    mt_len,         \* len(input_text)
    mt_out,         \* what calculate_max_tokens returned
    \* process_and_replace_sections_inline
    pc,             \* the phase the call is in
    container,      \* "both", "outer" (no mw-parser-output inside) or "none"
    doc,            \* the children of the content container, as parsed
    sections,       \* phase 1: the segments
    loop_i,         \* phase 1.5: the index i of the classification loop
    process_tasks,  \* phase 1.5: the tasks
    tstate,         \* phase 2: per task "new", "waiting" (its call is out) or "done"
    update_calls,   \* phase 2: the calls of update_content, in the order made
    replies,        \* phase 2: per task what the transformer answered
    completed,      \* phase 2: the tasks whose calls are over, in the order they ended
    task_results,   \* phase 2: per task what process_task returned
    section_results,\* the final html per segment
    tree,           \* phase 3: the children of the container, as they are now
    decomposed,     \* phase 3: the nodes destroyed by decompose()
    seg_k,          \* phase 3: the segment the loop is at
    str_decompose,  \* whether the library's NavigableString has decompose()
    outcome         \* "running", "returned" or "raised"

codecVars == <<cparts, cn, cresp, cout, cpc>>
htmlVars == <<ph_pc, content_type, path, content, html_string, ph_out, pipe_runs>>
extractVars == <<pc, container, doc, sections, loop_i, process_tasks>>
dispatchVars == <<tstate, update_calls, replies, completed, task_results>>
rebuildVars == <<section_results, tree, decomposed, seg_k, str_decompose>>
pipeVars == <<extractVars, dispatchVars, rebuildVars, outcome>>
\* what a step of the pipeline leaves alone outside the pipeline
urlVars == <<u_pc, u_content, u_type, u_out>>
proxyVars == <<px_pc, px_path, px_query, px_llm, px_fetched, px_upstream, px_response>>
llmVars == <<async_client, constructions, client_returns, mt_pc, mt_len, mt_out>>
outerVars == <<codecVars, htmlVars, urlVars, proxyVars, llmVars>>
vars == <<codecVars, pipeVars, htmlVars, urlVars, proxyVars, llmVars>>

----------------------------------------------------------------------------
(* Tokens *)

Tok(k, n) == [k |-> k, n |-> n]

\* the text '<!-- SECTION_BREAK_'
PRE == Tok("pre", 0)
\* the text 'i ' : the ordinal of a marker and the blank that follows it
NUM(i) == Tok("num", i)
\* the text '-->'
END == Tok("end", 0)
\* the text '<!-- PROCESSED ' : the opening of a comment that is no marker
CMT == Tok("cmt", 0)
\* the text '<p>' and '</p>'
POPEN == Tok("popen", 0)
PCLOSE == Tok("pclose", 0)
\* a run of n visible (non-blank) characters
TXT(n) == Tok("txt", n)
\* the text '<div>' and '</div>' of a div that is no heading
DOPEN == Tok("dopen", 0)
DCLOSE == Tok("dclose", 0)
\* the whole text of a heading div, '<div class="mw-heading"><h2>..</h2></div>',
\* h being the place of its heading text in HeadTexts
HDIV(h) == Tok("hdiv", h)

----------------------------------------------------------------------------
(* Python's str operations, on token sequences *)

MatchAt(s, sep, i) ==
    /\ i + Len(sep) - 1 <= Len(s)
    /\ \A k \in 1..Len(sep) : s[i + k - 1] = sep[k]

\* s.find(sep), 1-based; 0 when sep does not occur (Python's -1)
Find(s, sep) ==
    LET hits == {i \in 1..Len(s) : MatchAt(s, sep, i)}
    IN  IF hits = {} THEN 0 ELSE CHOOSE i \in hits : \A j \in hits : i <= j

\* sep in s
Contains(s, sep) == Find(s, sep) # 0

\* s[a:b] for 0-based offsets 0 <= a, 0 <= b
Slice(s, a, b) ==
    LET hi == IF b > Len(s) THEN Len(s) ELSE b
    IN  IF a >= hi THEN <<>> ELSE SubSeq(s, a + 1, hi)

\* s.split(sep, 1)
SplitOnce(s, sep) ==
    LET i == Find(s, sep)
    IN  IF i = 0 THEN <<s>>
        ELSE <<Slice(s, 0, i - 1), Slice(s, i - 1 + Len(sep), Len(s))>>

\* s.split(sep)
RECURSIVE SplitAll(_, _)
SplitAll(s, sep) ==
    LET i == Find(s, sep)
    IN  IF i = 0 THEN <<s>>
        ELSE <<Slice(s, 0, i - 1)>> \o SplitAll(Slice(s, i - 1 + Len(sep), Len(s)), sep)

\* the sequences over S of length at most n
SeqsUpTo(S, n) == UNION { [1..m -> S] : m \in 0..n }

\* ''.join(parts)
RECURSIVE Join(_)
Join(parts) == IF parts = <<>> THEN <<>> ELSE Head(parts) \o Join(Tail(parts))

----------------------------------------------------------------------------
(* Batch codec *)

\* Max 5 sections per batch
MaxBatch == 5

\* f"<!-- SECTION_BREAK_{i} -->"
Separator(i) == <<PRE, NUM(i), END>>

\* mutant: the markers are numbered by len(batch_html_parts), from 1
batch_html_parts_FromOne(htmls) ==
    [k \in 1..Len(htmls) |->
        IF k = 1 THEN htmls[1] ELSE Separator(k - 1) \o htmls[k]]

\* the parts the batch window collects: the first section's html, then each
\* further section's html behind the marker numbered len(batch_html_parts)-1
batch_html_parts(htmls) ==
    [k \in 1..Len(htmls) |->
        IF k = 1 THEN htmls[1] ELSE Separator(k - 2) \o htmls[k]]

\* combined_html = ''.join(batch_html_parts)
EncodeBatch(htmls) == Join(batch_html_parts(htmls))

\* mutant: no piece is taken behind the last marker
SplitPiece_NoTail(combined_html, num_sections, i) ==
    LET separator == Separator(i)
    IN  IF Contains(combined_html, separator)
        THEN IF i = 0
             THEN <<SplitOnce(combined_html, separator)[1]>>
             ELSE LET prev_separator == Separator(i - 1)
                  IN  IF Contains(combined_html, prev_separator)
                      THEN LET start_idx == (Find(combined_html, prev_separator) - 1)
                                              + Len(prev_separator)
                               end_idx == Find(combined_html, separator) - 1
                           IN  <<Slice(combined_html, start_idx, end_idx)>>
                      ELSE <<>>
        ELSE <<>>

\* one iteration of the loop of split_batch_result: what it appends for i
SplitPiece(combined_html, num_sections, i) ==
    LET separator == Separator(i)
    IN  IF Contains(combined_html, separator)
        THEN IF i = 0
             THEN <<SplitOnce(combined_html, separator)[1]>>
             ELSE LET prev_separator == Separator(i - 1)
                  IN  IF Contains(combined_html, prev_separator)
                      THEN LET start_idx == (Find(combined_html, prev_separator) - 1)
                                              + Len(prev_separator)
                               end_idx == Find(combined_html, separator) - 1
                           IN  <<Slice(combined_html, start_idx, end_idx)>>
                      ELSE <<>>
        ELSE IF i = num_sections - 1
             THEN LET last_separator == Separator(i - 1)
                  IN  IF Contains(combined_html, last_separator)
                      THEN LET parts == SplitOnce(combined_html, last_separator)
                           IN  IF Len(parts) > 1 THEN <<parts[2]>> ELSE <<>>
                      ELSE <<>>
             ELSE <<>>

RECURSIVE SplitLoop(_, _, _)
SplitLoop(combined_html, num_sections, i) ==
    IF i >= num_sections THEN <<>>
    ELSE SplitPiece(combined_html, num_sections, i)
            \o SplitLoop(combined_html, num_sections, i + 1)

split_batch_result(combined_html, num_sections) ==
    SplitLoop(combined_html, num_sections, 0)

----------------------------------------------------------------------------
(* The document: the children of div.mw-parser-output.                     *)
(* A node is a record                                                      *)
(*   id    its identity in the tree                                        *)
(*   kind  "heading" (a div of class mw-heading), "tag" (any other Tag)    *)
(*         or "str" (a NavigableString: bare text between tags)            *)
(*   head  the text of the h1..h6 of a heading div                         *)
(*   html  str(node)                                                       *)
(*   nest  the children of a tag that wraps further nodes                  *)
(*   vis   the number of visible characters the node was built with        *)
(*         (read by the claims only, never by the model of the code)       *)

HeadTexts == <<"History", "References", "REFERENCES", "see also">>

HeadIndex(h) == CHOOSE k \in 1..Len(HeadTexts) : HeadTexts[k] = h

\* str.lower() of a heading text
Lower(h) ==
    CASE h = "History" -> "history"
      [] h = "References" -> "references"
      [] h = "REFERENCES" -> "references"
      [] OTHER -> h

\* len() of a heading text
StrLen(h) ==
    CASE h = "History" -> 7
      [] h = "References" -> 10
      [] h = "REFERENCES" -> 10
      [] h = "see also" -> 8
      [] OTHER -> 0

Node(kind, head, html, nest, vis) ==
    [id |-> 0, kind |-> kind, head |-> head, html |-> html, nest |-> nest, vis |-> vis]

\* <p>n visible characters</p>
P(n) == Node("tag", "", <<POPEN, TXT(n), PCLOSE>>, <<>>, n)
\* <p>n visible characters<!-- SECTION_BREAK_k --></p>
PM(n, k) == Node("tag", "", <<POPEN, TXT(n)>> \o Separator(k) \o <<PCLOSE>>, <<>>, n)
\* bare text of n visible characters between two tags
Text(n) == Node("str", "", <<TXT(n)>>, <<>>, n)
\* <div class="mw-heading"><h2>h</h2></div>
Heading(h) == Node("heading", h, <<HDIV(HeadIndex(h))>>, <<>>, StrLen(h))
\* <div> nodes </div>, a div that is no heading and wraps nodes
Wrap(nodes) ==
    Node("tag", "", <<DOPEN>> \o Join([k \in 1..Len(nodes) |-> nodes[k].html]) \o <<DCLOSE>>,
         nodes, 0)

\* the parser gives every node its identity: child k of the container is k,
\* child q of a wrapping child k is 10 * k + q
WithIds(nodes) ==
    [k \in 1..Len(nodes) |->
        [nodes[k] EXCEPT
            !.id = k,
            !.nest = [q \in 1..Len(nodes[k].nest) |->
                         [nodes[k].nest[q] EXCEPT !.id = 10 * k + q]]]]

\* the visible characters of one token
TokChars(t) ==
    CASE t.k = "txt" -> t.n
      [] t.k = "hdiv" -> StrLen(HeadTexts[t.n])
      [] OTHER -> 0

\* len(BeautifulSoup(html, 'html.parser').get_text(strip=True)): the text of
\* a comment ('<!-- ... -->') is no visible text
RECURSIVE TextLenFrom(_, _, _)
TextLenFrom(s, k, inComment) ==
    IF k > Len(s) THEN 0
    ELSE IF inComment THEN TextLenFrom(s, k + 1, s[k].k # "end")
    ELSE IF s[k].k \in {"pre", "cmt"} THEN TextLenFrom(s, k + 1, TRUE)
    ELSE TokChars(s[k]) + TextLenFrom(s, k + 1, FALSE)

TextLen(html) == TextLenFrom(html, 1, FALSE)

----------------------------------------------------------------------------
(* Phase 1: the segmenter *)

\* child.name == 'div' and child.get('class') and 'mw-heading' in child.get('class')
IsHeadingDiv(node) == node.kind = "heading"

\* how many nodes come before the first heading div of a sibling list
LenBeforeHeading(nodes) ==
    LET hs == {k \in 1..Len(nodes) : IsHeadingDiv(nodes[k])}
    IN  IF hs = {} THEN Len(nodes)
        ELSE (CHOOSE k \in hs : \A m \in hs : k <= m) - 1

\* mutant: the loop does not stop at the first heading div
intro_elements_All(children) == children

\* the loop over content_div.children: everything before the first heading
intro_elements(children) == SubSeq(children, 1, LenBeforeHeading(children))

\* the node the intro is inserted before; 0 stands for None
first_heading_div(children) ==
    IF LenBeforeHeading(children) = Len(children) THEN 0
    ELSE children[LenBeforeHeading(children) + 1].id

\* ''.join(str(elem) for elem in elems)
Str(elems) == Join([k \in 1..Len(elems) |-> elems[k].html])

Ids(elems) == [k \in 1..Len(elems) |-> elems[k].id]

IntroSection(children) ==
    LET intro_html == Str(intro_elements(children))
    IN  [index |-> 0,
         type |-> "intro",
         html |-> intro_html,
         heading_text |-> "",
         text_length |-> TextLen(intro_html),
         insert_before |-> first_heading_div(children),
         insert_after |-> 0,
         elements_to_remove |-> Ids(intro_elements(children))]

IsTag(node) == node.kind # "str"

\* heading_div.find_next_siblings(): the Tag siblings that follow; bare text
\* is no Tag
find_next_siblings(sibs, pos) == SelectSeq(SubSeq(sibs, pos + 1, Len(sibs)), IsTag)

\* the siblings collected until the next heading div
section_elements(sibs, pos) ==
    LET following == find_next_siblings(sibs, pos)
    IN  SubSeq(following, 1, LenBeforeHeading(following))

\* the places of the heading divs among the siblings, in order
HeadingPlaces(sibs) ==
    LET PlaceOf(k) == [sibs |-> sibs, pos |-> k]
        IsHead(k) == IsHeadingDiv(sibs[k])
        idx == SelectSeq([k \in 1..Len(sibs) |-> k], IsHead)
    IN  [m \in 1..Len(idx) |-> PlaceOf(idx[m])]

\* content_div.find_all('div', class_='mw-heading'): every heading div below
\* the container in document order, the children's own children included
heading_divs(children) ==
    Join([k \in 1..Len(children) |->
            (IF IsHeadingDiv(children[k])
                THEN <<[sibs |-> children, pos |-> k]>> ELSE <<>>)
            \o HeadingPlaces(children[k].nest)])

\* h_tag.get_text(strip=True).lower()
get_section_heading_text(heading_div) == Lower(heading_div.head)

ExtractSection(idx, place) ==
    LET heading_div == place.sibs[place.pos]
        elems == section_elements(place.sibs, place.pos)
        section_html == Str(elems)
    IN  [index |-> idx,
         type |-> "section",
         html |-> section_html,
         heading_text |-> get_section_heading_text(heading_div),
         text_length |-> TextLen(section_html),
         insert_before |-> 0,
         insert_after |-> heading_div.id,
         elements_to_remove |-> Ids(elems)]

ExtractSections(children) ==
    LET hd == heading_divs(children)
    IN  <<IntroSection(children)>> \o [idx \in 1..Len(hd) |-> ExtractSection(idx, hd[idx])]

\* sections[idx], idx counted from 0 as in the code
Sec(secs, idx) == secs[idx + 1]

\* the state of a call before its first step
NotStarted ==
    /\ sections = <<>>
    /\ loop_i = 0
    /\ process_tasks = <<>>
    /\ tstate = <<>>
    /\ update_calls = <<>>
    /\ completed = <<>>
    /\ replies = <<>>
    /\ task_results = <<>>
    /\ section_results = <<>>
    /\ tree = <<>>
    /\ decomposed = {}
    /\ seg_k = 0
    /\ str_decompose = FALSE
    /\ outcome = "running"

\* process_html has returned nothing yet
NoOut == [set |-> FALSE, outside |-> <<>>, children |-> <<>>]

\* process_html is not called
HtmlIdle ==
    /\ ph_pc = "idle"
    /\ content_type = "None"
    /\ path = <<>>
    /\ content = <<>>
    /\ html_string = <<>>
    /\ ph_out = NoOut
    /\ pipe_runs = 0

\* rewrite_urls is not called on its own
UrlsIdle ==
    /\ u_pc = "idle"
    /\ u_content = <<>>
    /\ u_type = "None"
    /\ u_out = <<>>

\* the handler has returned nothing yet
NoResponse ==
    [kind |-> "none", status |-> 0, location |-> <<>>, content_type |-> "None",
     body |-> <<>>, headers |-> {}]

\* requests.get has not come back yet
NoUpstream ==
    [raised |-> FALSE, status_code |-> 0, content_type |-> "None", content |-> <<>>,
     headers |-> {}]

\* no request is at the handler
ProxyIdle ==
    /\ px_pc = "idle"
    /\ px_path = <<>>
    /\ px_query = <<>>
    /\ px_llm = FALSE
    /\ px_fetched = <<>>
    /\ px_upstream = NoUpstream
    /\ px_response = NoResponse

\* nothing of llm.py has run: no client yet, calculate_max_tokens not called
LlmIdle ==
    /\ async_client = 0
    /\ constructions = 0
    /\ client_returns = <<>>
    /\ mt_pc = "idle"
    /\ mt_len = 0
    /\ mt_out = 0

\* mutant: only the outer div is looked for
FindContainer_OuterOnly ==
    /\ pc = "enter"
    /\ IF container # "none"
       THEN pc' = "start" /\ UNCHANGED outcome
       ELSE pc' = "done" /\ outcome' = "raised"
    /\ UNCHANGED <<container, doc, sections, loop_i, process_tasks>>
    /\ UNCHANGED <<dispatchVars, rebuildVars, outerVars>>

\* soup.find('div', id='mw-content-text') and, inside it,
\* find('div', class_='mw-parser-output'): without either the call raises
FindContainer ==
    /\ pc = "enter"
    /\ IF container = "both"
       THEN pc' = "start" /\ UNCHANGED outcome
       ELSE pc' = "done" /\ outcome' = "raised"
    /\ UNCHANGED <<container, doc, sections, loop_i, process_tasks>>
    /\ UNCHANGED <<dispatchVars, rebuildVars, outerVars>>

Segment ==
    /\ pc = "start"
    /\ sections' = ExtractSections(doc)
    /\ loop_i' = 0
    /\ pc' = "classify"
    /\ UNCHANGED <<container, doc, process_tasks>>
    /\ UNCHANGED <<dispatchVars, rebuildVars, outcome, outerVars>>

----------------------------------------------------------------------------
(* Phase 1.5: the classifier *)

TINY_SECTION_THRESHOLD == 50
SMALL_SECTION_THRESHOLD == 500

SKIP_SECTIONS ==
    { "references", "notes", "bibliography", "citations", "footnotes",
      "external links", "see also", "further reading",
      "sources", "works cited", "general references",
      "general bibliography", "selected bibliography" }

\* mutant: the tiny test with <= in place of <
should_skip_section_AtMost(heading_text, html_content) ==
    \/ heading_text \in SKIP_SECTIONS
    \/ TextLen(html_content) <= TINY_SECTION_THRESHOLD

should_skip_section(heading_text, html_content) ==
    \/ heading_text \in SKIP_SECTIONS
    \/ TextLen(html_content) < TINY_SECTION_THRESHOLD

ShouldSkip(section) == should_skip_section(section.heading_text, section.html)

\* mutant: the window is closed one section too late
RECURSIVE BatchWindowEnd_OneMore(_, _, _)
BatchWindowEnd_OneMore(secs, j, n) ==
    IF /\ j < Len(secs)
       /\ n <= MaxBatch
       /\ ~should_skip_section(secs[j + 1].heading_text, secs[j + 1].html)
       /\ secs[j + 1].text_length < SMALL_SECTION_THRESHOLD
    THEN BatchWindowEnd_OneMore(secs, j + 1, n + 1)
    ELSE j

\* mutant: the window is closed as soon as it holds two sections
RECURSIVE BatchWindowEnd_Pairs(_, _, _)
BatchWindowEnd_Pairs(secs, j, n) ==
    IF /\ j < Len(secs)
       /\ n < 2
       /\ ~should_skip_section(secs[j + 1].heading_text, secs[j + 1].html)
       /\ secs[j + 1].text_length < SMALL_SECTION_THRESHOLD
    THEN BatchWindowEnd_Pairs(secs, j + 1, n + 1)
    ELSE j

\* the inner while loop: the index j it stops at, n sections being in the window
RECURSIVE BatchWindowEnd(_, _, _)
BatchWindowEnd(secs, j, n) ==
    IF /\ j < Len(secs)
       /\ n < MaxBatch
       /\ ~ShouldSkip(Sec(secs, j))
       /\ Sec(secs, j).text_length < SMALL_SECTION_THRESHOLD
    THEN BatchWindowEnd(secs, j + 1, n + 1)
    ELSE j

\* the indices lo, lo+1, .., hi-1
Range(lo, hi) == [k \in 1..(hi - lo) |-> lo + k - 1]

SkipTask(secs, idx) ==
    [type |-> "skip", section_indices |-> <<idx>>,
     html |-> Sec(secs, idx).html, num_sections |-> 0]

IndividualTask(secs, idx) ==
    [type |-> "individual", section_indices |-> <<idx>>,
     html |-> Sec(secs, idx).html, num_sections |-> 0]

BatchTask(secs, lo, hi) ==
    LET batch_indices == Range(lo, hi)
    IN  [type |-> "batch", section_indices |-> batch_indices,
         html |-> EncodeBatch([k \in 1..Len(batch_indices) |-> Sec(secs, batch_indices[k]).html]),
         num_sections |-> Len(batch_indices)]

\* mutant: after a batch the loop goes on with i + 1 instead of j
ClassifyAt_NoJump(secs, idx) ==
    LET section == Sec(secs, idx)
        j == BatchWindowEnd(secs, idx + 1, 1)
    IN  IF ShouldSkip(section)
        THEN [task |-> SkipTask(secs, idx), next |-> idx + 1]
        ELSE IF section.text_length < SMALL_SECTION_THRESHOLD /\ j - idx > 1
             THEN [task |-> BatchTask(secs, idx, j), next |-> idx + 1]
             ELSE [task |-> IndividualTask(secs, idx), next |-> idx + 1]

\* one iteration of `while i < len(sections)`: the task it appends and the
\* index it goes on with
ClassifyAt(secs, idx) ==
    LET section == Sec(secs, idx)
        j == BatchWindowEnd(secs, idx + 1, 1)
    IN  IF ShouldSkip(section)
        THEN [task |-> SkipTask(secs, idx), next |-> idx + 1]
        ELSE IF section.text_length < SMALL_SECTION_THRESHOLD
             THEN IF j - idx > 1
                  THEN [task |-> BatchTask(secs, idx, j), next |-> j]
                  ELSE [task |-> IndividualTask(secs, idx), next |-> idx + 1]
             ELSE [task |-> IndividualTask(secs, idx), next |-> idx + 1]

ClassifyStep ==
    /\ pc = "classify"
    /\ loop_i < Len(sections)
    /\ process_tasks' = Append(process_tasks, ClassifyAt(sections, loop_i).task)
    /\ loop_i' = ClassifyAt(sections, loop_i).next
    /\ UNCHANGED <<pc, container, doc, sections>>
    /\ UNCHANGED <<dispatchVars, rebuildVars, outcome, outerVars>>

\* the loop ends
ClassifyExit ==
    /\ pc = "classify"
    /\ loop_i >= Len(sections)
    /\ pc' = "classified"
    /\ UNCHANGED <<container, doc, sections, loop_i, process_tasks>>
    /\ UNCHANGED <<dispatchVars, rebuildVars, outcome, outerVars>>

----------------------------------------------------------------------------
(* Phase 2: the dispatcher *)

\* a task that has not returned yet
NoResult == [set |-> FALSE, success |-> FALSE, results |-> <<>>, section_indices |-> <<>>]

\* a call that has not been answered yet
NoReply == [kind |-> "none", html |-> <<>>]

\* the dict process_task returns
TaskResult(success, results, task) ==
    [set |-> TRUE, success |-> success, results |-> results,
     section_indices |-> task.section_indices]

\* asyncio.gather(*[process_task(task) for task in process_tasks]) makes one
\* asyncio task per task
GatherStart ==
    /\ pc = "classified"
    /\ pc' = "gather"
    /\ tstate' = [t \in 1..Len(process_tasks) |-> "new"]
    /\ replies' = [t \in 1..Len(process_tasks) |-> NoReply]
    /\ task_results' = [t \in 1..Len(process_tasks) |-> NoResult]
    /\ UNCHANGED <<container, doc, sections, loop_i, process_tasks, update_calls, completed>>
    /\ UNCHANGED <<rebuildVars, outcome, outerVars>>

\* mutant: a skip task hands back changed html
SkipResult_Changed(task) == TaskResult(TRUE, <<task.html \o <<CMT, END>>>>, task)

\* the skip branch: the original html, no call
SkipResult(task) == TaskResult(TRUE, <<task.html>>, task)

\* mutant: a task is started only when the tasks before it are over
TaskStart_OneByOne(t) ==
    /\ pc = "gather"
    /\ tstate[t] = "new"
    /\ \A u \in 1..(t - 1) : tstate[u] = "done"
    /\ IF process_tasks[t].type = "skip"
       THEN /\ tstate' = [tstate EXCEPT ![t] = "done"]
            /\ task_results' = [task_results EXCEPT ![t] = SkipResult(process_tasks[t])]
            /\ UNCHANGED update_calls
       ELSE /\ tstate' = [tstate EXCEPT ![t] = "waiting"]
            /\ update_calls' = Append(update_calls, [task |-> t, html |-> process_tasks[t].html])
            /\ UNCHANGED task_results
    /\ UNCHANGED <<extractVars, replies, completed, rebuildVars, outcome, outerVars>>

\* The event loop runs the asyncio tasks in the order gather made them, each
\* up to its first await: a skip task returns, any other task calls
\* update_content and waits.
TaskStart(t) ==
    /\ pc = "gather"
    /\ tstate[t] = "new"
    /\ \A u \in 1..(t - 1) : tstate[u] # "new"
    /\ IF process_tasks[t].type = "skip"
       THEN /\ tstate' = [tstate EXCEPT ![t] = "done"]
            /\ task_results' = [task_results EXCEPT ![t] = SkipResult(process_tasks[t])]
            /\ UNCHANGED update_calls
       ELSE /\ tstate' = [tstate EXCEPT ![t] = "waiting"]
            /\ update_calls' = Append(update_calls, [task |-> t, html |-> process_tasks[t].html])
            /\ UNCHANGED task_results
    /\ UNCHANGED <<extractVars, replies, completed, rebuildVars, outcome, outerVars>>

\* "Split failed, return originals": the payload is split on
\* '<!-- SECTION_BREAK_' and every later part is cut after its first '-->'
FallbackResults(task_html) ==
    LET original_parts == SplitAll(task_html, <<PRE>>)
        AfterEnd(part) ==
            IF Contains(part, <<END>>) THEN SplitOnce(part, <<END>>)[2] ELSE part
    IN  [k \in 1..Len(original_parts) |->
            IF k = 1 THEN original_parts[1] ELSE AfterEnd(original_parts[k])]

\* the batch branch after the reply
BatchResult(task, updated_html) ==
    LET split_results == split_batch_result(updated_html, task.num_sections)
    IN  IF Len(split_results) # task.num_sections
        THEN TaskResult(FALSE, FallbackResults(task.html), task)
        ELSE TaskResult(TRUE, split_results, task)

\* the individual branch after the reply
IndividualResult(task, updated_html) == TaskResult(TRUE, <<updated_html>>, task)

\* the except branch: the originals of the sections the task covers
ErrorResult(task, secs) ==
    TaskResult(FALSE,
               [k \in 1..Len(task.section_indices) |-> Sec(secs, task.section_indices[k]).html],
               task)

\* the transformer's reply in the tests' mocks: the input and a comment
Processed(html) == html \o <<CMT, END>>

\* a reply that lost the marker SECTION_BREAK_0
WithoutFirstMarker(html) == Join(SplitOnce(html, Separator(0)))

\* a reply that is one paragraph and holds no marker at all
Summary == <<POPEN, TXT(TINY_SECTION_THRESHOLD), PCLOSE>>

\* what the transformer may answer to a task's call
Replies(task) ==
    IF task.type = "batch"
    THEN {Processed(task.html), WithoutFirstMarker(task.html), Summary}
    ELSE {Processed(task.html), <<>>}

\* update_content returns: process_task goes on behind its await
TransformerReturns(t) ==
    /\ pc = "gather"
    /\ tstate[t] = "waiting"
    /\ \E updated_html \in Replies(process_tasks[t]) :
          /\ replies' = [replies EXCEPT ![t] = [kind |-> "ok", html |-> updated_html]]
          /\ task_results' =
                [task_results EXCEPT ![t] =
                    IF process_tasks[t].type = "batch"
                    THEN BatchResult(process_tasks[t], updated_html)
                    ELSE IndividualResult(process_tasks[t], updated_html)]
    /\ tstate' = [tstate EXCEPT ![t] = "done"]
    /\ completed' = Append(completed, t)
    /\ UNCHANGED <<extractVars, update_calls, rebuildVars, outcome, outerVars>>

\* update_content raises: the except branch of process_task
TransformerRaises(t) ==
    /\ pc = "gather"
    /\ tstate[t] = "waiting"
    /\ replies' = [replies EXCEPT ![t] = [kind |-> "error", html |-> <<>>]]
    /\ task_results' = [task_results EXCEPT ![t] = ErrorResult(process_tasks[t], sections)]
    /\ tstate' = [tstate EXCEPT ![t] = "done"]
    /\ completed' = Append(completed, t)
    /\ UNCHANGED <<extractVars, update_calls, rebuildVars, outcome, outerVars>>

\* the slot of a segment that no task result wrote; it stands for None
NoSlot == [set |-> FALSE, html |-> <<>>]

\* the writes of the loop over task_results into slot idx: <<t, k>> when
\* task_results[t]['section_indices'][k] is idx
WritesTo(results, idx) ==
    { w \in (1..Len(results)) \X (1..MaxBatch) :
        /\ w[2] <= Len(results[w[1]].section_indices)
        /\ results[w[1]].section_indices[w[2]] = idx }

\* mutant: the results are collected in the order the calls ended (the skip
\* tasks behind them) and handed to the sections by the place of the task
SlotAfterMap_AsCompleted(results, secs, idx) ==
    LET IsOver(t) == \E c \in 1..Len(completed) : completed[c] = t
        NotCalled(t) == ~IsOver(t)
        byEnd == completed \o SelectSeq([t \in 1..Len(results) |-> t], NotCalled)
        t == CHOOSE u \in 1..Len(process_tasks) :
                \E k \in 1..Len(process_tasks[u].section_indices) :
                    process_tasks[u].section_indices[k] = idx
        k == CHOOSE q \in 1..Len(process_tasks[t].section_indices) :
                process_tasks[t].section_indices[q] = idx
        got == results[byEnd[t]].results
    IN  IF k <= Len(got) THEN [set |-> TRUE, html |-> got[k]]
        ELSE [set |-> TRUE, html |-> Sec(secs, idx).html]

\* section_results[idx] after the loop: the last write stays
SlotAfterMap(results, secs, idx) ==
    LET ws == WritesTo(results, idx)
        last == CHOOSE w \in ws :
                    \A v \in ws : v[1] < w[1] \/ (v[1] = w[1] /\ v[2] <= w[2])
    IN  IF ws = {} THEN NoSlot
        ELSE IF last[2] <= Len(results[last[1]].results)
             THEN [set |-> TRUE, html |-> results[last[1]].results[last[2]]]
             ELSE [set |-> TRUE, html |-> Sec(secs, idx).html]

\* gather returns once every task has returned; the results are mapped back
\* to the sections.  Which build of the library runs is fixed here, where
\* it is first of any consequence.
MapResults ==
    /\ pc = "gather"
    /\ \A t \in 1..Len(process_tasks) : tstate[t] = "done"
    /\ section_results' =
          [n \in 1..Len(sections) |-> SlotAfterMap(task_results, sections, n - 1)]
    /\ tree' = doc
    /\ seg_k' = 0
    /\ str_decompose' \in BOOLEAN
    /\ pc' = "insert"
    /\ UNCHANGED <<container, doc, sections, loop_i, process_tasks, dispatchVars, decomposed, outcome>>
    /\ UNCHANGED outerVars

----------------------------------------------------------------------------
(* Phase 3: the document is put together again *)

\* the first position from k on whose token is of one of the kinds; 0 if none
NextOf(s, k, kinds) ==
    LET hits == {m \in k..Len(s) : s[m].k \in kinds}
    IN  IF hits = {} THEN 0 ELSE CHOOSE m \in hits : \A h \in hits : m <= h

\* a token that is text wherever it stands outside a comment
IsTextTok(t) == t.k \in {"txt", "num", "end"}

\* the last position of the run of text that starts at k
RECURSIVE TextRunEnd(_, _)
TextRunEnd(s, k) ==
    IF k < Len(s) /\ IsTextTok(s[k + 1]) THEN TextRunEnd(s, k + 1) ELSE k

\* list(BeautifulSoup(html, 'html.parser').children) from position k on: an
\* element from its opening to its closing tag (closed at the end of the
\* input if it is left open), a comment, a run of text; a closing tag that
\* closes nothing is dropped
RECURSIVE ParseFrom(_, _)
ParseFrom(s, k) ==
    IF k > Len(s) THEN <<>>
    ELSE LET Element(close, closer) ==
                 LET m == NextOf(s, k + 1, {close})
                 IN  IF m = 0
                     THEN <<Node("tag", "", SubSeq(s, k, Len(s)) \o <<closer>>, <<>>, 0)>>
                     ELSE <<Node("tag", "", SubSeq(s, k, m), <<>>, 0)>> \o ParseFrom(s, m + 1)
         IN  CASE s[k].k = "popen" -> Element("pclose", PCLOSE)
               [] s[k].k = "dopen" -> Element("dclose", DCLOSE)
               [] s[k].k = "hdiv" ->
                     <<Node("heading", HeadTexts[s[k].n], <<s[k]>>, <<>>, 0)>>
                     \o ParseFrom(s, k + 1)
               [] s[k].k \in {"pre", "cmt"} ->
                     LET m == NextOf(s, k + 1, {"end"})
                     IN  IF m = 0
                         THEN <<Node("str", "", SubSeq(s, k, Len(s)), <<>>, 0)>>
                         ELSE <<Node("str", "", SubSeq(s, k, m), <<>>, 0)>>
                              \o ParseFrom(s, m + 1)
               [] s[k].k \in {"pclose", "dclose"} -> ParseFrom(s, k + 1)
               [] OTHER ->
                     LET m == TextRunEnd(s, k)
                     IN  <<Node("str", "", SubSeq(s, k, m), <<>>, 0)>> \o ParseFrom(s, m + 1)

\* the nodes of the html of segment number k (from 0), with identities of
\* their own
NewNodes(html, k) ==
    LET parsed == ParseFrom(html, 1)
    IN  [q \in 1..Len(parsed) |-> [parsed[q] EXCEPT !.id = 100 * (k + 1) + q]]

\* the position of the node of identity id among nodes; 0 if it is not there
PosIn(nodes, id) ==
    LET hits == {k \in 1..Len(nodes) : nodes[k].id = id}
    IN  IF hits = {} THEN 0 ELSE CHOOSE k \in hits : TRUE

\* nodes with new put in behind position p
InsertAt(nodes, p, new) == SubSeq(nodes, 1, p) \o new \o SubSeq(nodes, p + 1, Len(nodes))

\* a wrapping child with other children: its str() follows them
Rewrap(node, nest) ==
    IF nest = node.nest THEN node
    ELSE [node EXCEPT !.nest = nest, !.html = <<DOPEN>> \o Str(nest) \o <<DCLOSE>>]

\* anchor.insert_after(first), first.insert_after(second), ...: the new nodes
\* follow the anchor, among the container's children or inside the child
\* that wraps the anchor
InsertAfter(t, anchor, new) ==
    IF PosIn(t, anchor) # 0 THEN InsertAt(t, PosIn(t, anchor), new)
    ELSE [k \in 1..Len(t) |->
            IF PosIn(t[k].nest, anchor) # 0
            THEN Rewrap(t[k], InsertAt(t[k].nest, PosIn(t[k].nest, anchor), new))
            ELSE t[k]]

\* anchor.insert_before(first) and the rest behind it; without an anchor
\* content_div.insert(0, first)
InsertBefore(t, anchor, new) ==
    IF anchor = 0 THEN InsertAt(t, 0, new)
    ELSE InsertAt(t, PosIn(t, anchor) - 1, new)

\* the html a segment is rebuilt from: its slot, the original if it is None
FinalHtml(k) ==
    IF section_results[k + 1].set THEN section_results[k + 1].html
    ELSE Sec(sections, k).html

\* The first half of one round of the loop: the new nodes go into the tree.
\* insert_after and insert_before raise ValueError on an anchor that has no
\* parent, which is what decompose() leaves of a node.
ReassembleInsert ==
    /\ pc = "insert"
    /\ seg_k < Len(sections)
    /\ LET section == Sec(sections, seg_k)
           new == NewNodes(FinalHtml(seg_k), seg_k)
           anchor == IF section.type = "intro" THEN section.insert_before
                     ELSE section.insert_after
       IN  IF new # <<>> /\ anchor \in decomposed
           THEN /\ outcome' = "raised"
                /\ pc' = "done"
                /\ UNCHANGED tree
           ELSE /\ tree' = IF new = <<>> THEN tree
                           ELSE IF section.type = "intro"
                                THEN InsertBefore(tree, anchor, new)
                                ELSE InsertAfter(tree, anchor, new)
                /\ pc' = "remove"
                /\ UNCHANGED outcome
    /\ UNCHANGED <<container, doc, sections, loop_i, process_tasks, dispatchVars>>
    /\ UNCHANGED <<section_results, decomposed, seg_k, str_decompose, outerVars>>

\* the node of the parsed document with the identity id
OriginalNode(id) ==
    IF PosIn(doc, id) # 0 THEN doc[PosIn(doc, id)]
    ELSE LET w == CHOOSE k \in 1..Len(doc) : PosIn(doc[k].nest, id) # 0
         IN  doc[w].nest[PosIn(doc[w].nest, id)]

\* hasattr(elem, 'decompose'): every Tag has it, a NavigableString only in
\* the builds of the library that give it one
HasDecompose(id) == OriginalNode(id).kind # "str" \/ str_decompose

\* the nodes that go when the nodes ids are decomposed: they and all below
Below(t, ids) ==
    ids \cup UNION {{t[k].nest[q].id : q \in 1..Len(t[k].nest)} :
                        k \in {m \in 1..Len(t) : t[m].id \in ids}}

\* the tree without the nodes gone
Without(t, gone) ==
    LET Stays(node) == node.id \notin gone
        kept == SelectSeq(t, Stays)
    IN  [k \in 1..Len(kept) |-> Rewrap(kept[k], SelectSeq(kept[k].nest, Stays))]

\* The second half: the segment's original nodes are decomposed.
ReassembleRemove ==
    /\ pc = "remove"
    /\ LET owned == Sec(sections, seg_k).elements_to_remove
           ids == {owned[k] : k \in {m \in 1..Len(owned) : HasDecompose(owned[m])}}
           gone == Below(tree, ids)
       IN  /\ tree' = Without(tree, gone)
           /\ decomposed' = decomposed \cup gone
    /\ seg_k' = seg_k + 1
    /\ pc' = "insert"
    /\ UNCHANGED <<container, doc, sections, loop_i, process_tasks, dispatchVars>>
    /\ UNCHANGED <<section_results, str_decompose, outcome, outerVars>>

\* return str(soup)
Return ==
    /\ pc = "insert"
    /\ seg_k = Len(sections)
    /\ outcome' = "returned"
    /\ pc' = "done"
    /\ UNCHANGED <<container, doc, sections, loop_i, process_tasks, dispatchVars, rebuildVars, outerVars>>

\* str(soup): the children of the container, one after the other
Rendered == Str(tree)

----------------------------------------------------------------------------
(* The URL rewriter (html_processing.rewrite_urls).  The bytes of a page   *)
(* are a sequence of pieces: "https:", "http:", "//", a subdomain with its *)
(* dot, a host name, any other text, or a byte that is no UTF-8.           *)

\* os.getenv("WEBSITE_DOMAIN", "localhost:8000")
WEBSITE_DOMAIN == "localhost:8000"

base_domain == <<"http:", "//", WEBSITE_DOMAIN>>
protocol_domain == <<"//", WEBSITE_DOMAIN>>
wikimedia_domain == <<"http:", "//", WEBSITE_DOMAIN, "/wikimedia">>

\* a byte that is not valid UTF-8
BadByte == "0xFF"

\* text around the URLs; it starts and ends with a blank, so that it is no
\* part of a host name
Filler == " text "

\* https?
Schemes == {"https:", "http:"}

\* the subdomains ([a-z]+\.) matches, among those of the upstream
LetterSubdomains == {"en."}

\* subdomains of the upstream that ([a-z]+\.) does not match
OtherSubdomains == {"zh-yue."}

\* https?://([a-z]+\.)?wikipedia\.org
AbsolutePattern ==
    { <<sch, "//", "wikipedia.org">> : sch \in Schemes }
    \cup { <<sch, "//", sub, "wikipedia.org">> : sch \in Schemes, sub \in LetterSubdomains }

\* //([a-z]+\.)?wikipedia\.org
RelativePattern ==
    { <<"//", "wikipedia.org">> }
    \cup { <<"//", sub, "wikipedia.org">> : sub \in LetterSubdomains }

\* https?://upload\.wikimedia\.org
MediaPattern == { <<sch, "//", "upload.wikimedia.org">> : sch \in Schemes }

\* the matches of a pattern that start at position i of html
MatchesAt(html, pattern, i) == {m \in pattern : MatchAt(html, m, i)}

\* re.sub(pattern, repl, html) from position i on: the leftmost matches,
\* none overlapping another, are replaced
RECURSIVE ReSubFrom(_, _, _, _)
ReSubFrom(pattern, repl, html, i) ==
    IF i > Len(html) THEN <<>>
    ELSE IF MatchesAt(html, pattern, i) # {}
         THEN LET m == CHOOSE x \in MatchesAt(html, pattern, i) :
                          \A y \in MatchesAt(html, pattern, i) : Len(y) <= Len(x)
              IN  repl \o ReSubFrom(pattern, repl, html, i + Len(m))
         ELSE <<html[i]>> \o ReSubFrom(pattern, repl, html, i + 1)

ReSub(pattern, repl, html) == ReSubFrom(pattern, repl, html, 1)

\* 'text/html' in content_type, for a content type that is not None or ''
IsHtmlType(ct) == ct \in {"text/html", "text/html; charset=UTF-8"}

\* content.decode('utf-8') raises UnicodeDecodeError
DecodeRaises(bytes) == \E i \in 1..Len(bytes) : bytes[i] = BadByte

\* rewrite_urls(content, content_type): what it returns, or that it raises
rewrite_urls(bytes, ct) ==
    IF ~IsHtmlType(ct) THEN [raised |-> FALSE, bytes |-> bytes]
    ELSE IF DecodeRaises(bytes) THEN [raised |-> TRUE, bytes |-> <<>>]
    ELSE [raised |-> FALSE,
          bytes |-> ReSub(MediaPattern, wikimedia_domain,
                        ReSub(RelativePattern, protocol_domain,
                            ReSub(AbsolutePattern, base_domain, bytes)))]

----------------------------------------------------------------------------
(* Segmenting and classifying documents of many sections *)

\* the codec is not run on its own while the pipeline is checked
CodecIdle ==
    /\ cparts = <<>>
    /\ cn = 0
    /\ cresp = <<>>
    /\ cout = <<>>
    /\ cpc = "idle"

\* most heading divs of a document of the classifier's specification
MaxSections == 5

\* visible lengths on both sides of the two thresholds
EdgeSizes ==
    { TINY_SECTION_THRESHOLD - 1, TINY_SECTION_THRESHOLD,
      SMALL_SECTION_THRESHOLD - 1, SMALL_SECTION_THRESHOLD }

\* a section: its heading text and the visible length of its one paragraph
SectionKinds ==
    { <<"History", n>> : n \in EdgeSizes } \cup { <<"REFERENCES", SMALL_SECTION_THRESHOLD>> }

SectionNodes(kind) == <<Heading(kind[1]), P(kind[2])>>

\* the intro: one paragraph, small or large
IntroSizes == { TINY_SECTION_THRESHOLD, SMALL_SECTION_THRESHOLD }

ClassifyDocs ==
    { WithIds(<<P(n)>> \o Join([k \in 1..Len(ks) |-> SectionNodes(ks[k])])) :
        n \in IntroSizes, ks \in SeqsUpTo(SectionKinds, MaxSections) }

InitClassify ==
    /\ CodecIdle
    /\ UrlsIdle
    /\ LlmIdle
    /\ ProxyIdle
    /\ HtmlIdle
    /\ pc = "start"
    /\ container = "both"
    /\ doc \in ClassifyDocs
    /\ NotStarted

NextClassify == Segment \/ ClassifyStep \/ ClassifyExit

SpecClassify == InitClassify /\ [][NextClassify]_vars

----------------------------------------------------------------------------
(* The whole call on small documents *)

\* most heading divs among the container's children
MaxHeadings == 2

\* what stands before the first heading div or behind a heading div:
\* nothing, a small paragraph, a large one, bare text and a paragraph, a
\* paragraph that holds a marker comment, a div that wraps a heading div
\* and a paragraph
Contents ==
    { <<>>,
      <<P(TINY_SECTION_THRESHOLD)>>,
      <<P(SMALL_SECTION_THRESHOLD)>>,
      <<Text(TINY_SECTION_THRESHOLD), P(TINY_SECTION_THRESHOLD)>>,
      <<PM(TINY_SECTION_THRESHOLD, 0)>>,
      <<Wrap(<<Heading("History"), P(TINY_SECTION_THRESHOLD)>>)>> }

Headed == { <<Heading(h)>> \o c : h \in {"History", "References"}, c \in Contents }

PipeDocs ==
    { WithIds(c \o Join(hs)) : c \in Contents, hs \in SeqsUpTo(Headed, MaxHeadings) }

\* the page as the call finds it: with the content container and its
\* children, or without the container
Pages(docs) ==
    { [container |-> "both", doc |-> d] : d \in docs }
    \cup { [container |-> c, doc |-> <<>>] : c \in {"outer", "none"} }

Init ==
    /\ CodecIdle
    /\ UrlsIdle
    /\ LlmIdle
    /\ ProxyIdle
    /\ HtmlIdle
    /\ pc = "enter"
    /\ \E page \in Pages(PipeDocs) : container = page.container /\ doc = page.doc
    /\ NotStarted

Next ==
    \/ FindContainer
    \/ Segment
    \/ ClassifyStep
    \/ ClassifyExit
    \/ GatherStart
    \/ \E t \in 1..Len(process_tasks) : TaskStart(t)
    \/ \E t \in 1..Len(process_tasks) : TransformerReturns(t)
    \/ \E t \in 1..Len(process_tasks) : TransformerRaises(t)
    \/ MapResults
    \/ ReassembleInsert
    \/ ReassembleRemove
    \/ Return

Spec == Init /\ [][Next]_vars

\* a step of the coroutine process_and_replace_sections_inline itself: the
\* event loop runs it whenever it can go on
CoordinatorStep ==
    \/ FindContainer
    \/ Segment
    \/ ClassifyStep
    \/ ClassifyExit
    \/ GatherStart
    \/ \E t \in 1..Len(process_tasks) : TaskStart(t)
    \/ MapResults
    \/ ReassembleInsert
    \/ ReassembleRemove
    \/ Return

\* a call of update_content that is out comes back, with an exception or a
\* reply
CallResolves ==
    \E t \in 1..Len(process_tasks) : TransformerRaises(t) \/ TransformerReturns(t)

\* the pages of the fair runs: what stands before the first heading div, and
\* at most one heading div with what stands behind it
LiveDocs == { WithIds(c \o h) : c \in Contents, h \in Headed \cup {<<>>} }

InitLive ==
    /\ CodecIdle
    /\ UrlsIdle
    /\ LlmIdle
    /\ ProxyIdle
    /\ HtmlIdle
    /\ pc = "enter"
    /\ \E page \in Pages(LiveDocs) : container = page.container /\ doc = page.doc
    /\ NotStarted

\* the call under a scheduler that keeps running what can run, every call
\* issued coming back at some time
SpecLive ==
    InitLive /\ [][Next]_vars /\ WF_vars(CoordinatorStep) /\ WF_vars(CallResolves)

----------------------------------------------------------------------------
(* process_html: URL rewriting, the two gates, the pipeline.  A request    *)
(* path is a sequence of pieces: "/", "wiki/", ":" or a name.              *)

\* path.startswith('/wiki/') or path.startswith('wiki/')
HasContentPrefix(p) == MatchAt(p, <<"/", "wiki/">>, 1) \/ MatchAt(p, <<"wiki/">>, 1)

\* the condition of the second return, negated: the path is one of a page
\* to transform
QualifyingPath(p) == HasContentPrefix(p) /\ ~Contains(p, <<":">>)

\* process_html up to the call of the pipeline: rewrite_urls, which may
\* raise; the gate of the content type; the gate of the path; decode and
\* asyncio.run(process_and_replace_sections_inline(html_string))
ProcessHtmlCall ==
    /\ ph_pc = "called"
    /\ LET rewritten == rewrite_urls(content, content_type)
       IN  IF rewritten.raised
           THEN /\ ph_pc' = "raised"
                /\ UNCHANGED <<html_string, ph_out, pipe_runs, pc>>
           ELSE IF ~IsHtmlType(content_type) \/ ~QualifyingPath(path)
           THEN /\ ph_pc' = "returned"
                /\ ph_out' = [set |-> TRUE, outside |-> rewritten.bytes, children |-> doc]
                /\ UNCHANGED <<html_string, pipe_runs, pc>>
           ELSE /\ ph_pc' = "piping"
                /\ html_string' = rewritten.bytes
                /\ pipe_runs' = pipe_runs + 1
                /\ pc' = "enter"
                /\ UNCHANGED ph_out
    /\ UNCHANGED <<content_type, path, content, container, doc, sections, loop_i, process_tasks>>
    /\ UNCHANGED <<dispatchVars, rebuildVars, outcome, codecVars, urlVars, proxyVars, llmVars>>

\* the pipeline is over: asyncio.run hands on what it returned or raised
ProcessHtmlReturn ==
    /\ ph_pc = "piping"
    /\ pc = "done"
    /\ IF outcome = "raised"
       THEN ph_pc' = "raised" /\ UNCHANGED ph_out
       ELSE /\ ph_pc' = "returned"
            /\ ph_out' = [set |-> TRUE, outside |-> html_string, children |-> tree]
    /\ UNCHANGED <<content_type, path, content, html_string, pipe_runs>>
    /\ UNCHANGED <<pipeVars, codecVars, urlVars, proxyVars, llmVars>>

\* the content types of a response
ContentTypes == {"None", "", "text/html", "text/html; charset=UTF-8", "application/json"}

\* request paths
Paths ==
    { <<>>,
      <<"/", "wiki/", "Cat">>,
      <<"wiki/", "Cat">>,
      <<"/", "Special", ":", "Search">>,
      <<"Special", ":", "Search">>,
      <<"/", "wiki/", "File", ":", "Cat">>,
      <<"wiki/", "File", ":", "Cat">>,
      <<"/", "w/", "index.php">>,
      <<"/", "x/", "wiki/", "Cat">>,
      <<"/", "Cat">> }

\* the bytes around the container: without a URL, with URLs of the upstream,
\* with a byte that is no UTF-8
HtmlContents ==
    { <<Filler>>,
      <<"https:", "//", "en.", "wikipedia.org", Filler, "//", "wikipedia.org">>,
      <<Filler, BadByte>> }

\* the children of the container: one large paragraph; a small one and a
\* boilerplate section
HtmlDocs ==
    { WithIds(<<P(SMALL_SECTION_THRESHOLD)>>),
      WithIds(<<P(TINY_SECTION_THRESHOLD), Heading("References"),
                P(TINY_SECTION_THRESHOLD)>>) }

InitHtml ==
    /\ CodecIdle
    /\ UrlsIdle
    /\ LlmIdle
    /\ ProxyIdle
    /\ ph_pc = "called"
    /\ content_type \in ContentTypes
    /\ path \in Paths
    /\ content \in HtmlContents
    /\ html_string = <<>>
    /\ ph_out = NoOut
    /\ pipe_runs = 0
    /\ pc = "idle"
    /\ \E page \in Pages(HtmlDocs) : container = page.container /\ doc = page.doc
    /\ NotStarted

NextHtml ==
    \/ ProcessHtmlCall
    \/ FindContainer
    \/ Segment
    \/ ClassifyStep
    \/ ClassifyExit
    \/ GatherStart
    \/ \E t \in 1..Len(process_tasks) : TaskStart(t)
    \/ \E t \in 1..Len(process_tasks) : TransformerReturns(t)
    \/ \E t \in 1..Len(process_tasks) : TransformerRaises(t)
    \/ MapResults
    \/ ReassembleInsert
    \/ ReassembleRemove
    \/ Return
    \/ ProcessHtmlReturn

SpecHtml == InitHtml /\ [][NextHtml]_vars

----------------------------------------------------------------------------
(* rewrite_urls on its own *)

\* the pipeline is not entered
PipeIdle ==
    /\ pc = "idle"
    /\ container = "none"
    /\ doc = <<>>
    /\ NotStarted

\* most pieces of the bytes given
MaxPieces == 3

\* the pieces the bytes are made of
UrlPieces ==
    Schemes \cup LetterSubdomains \cup OtherSubdomains
    \cup {"//", "wikipedia.org", "upload.wikimedia.org", Filler, BadByte}

UrlContents == SeqsUpTo(UrlPieces, MaxPieces)

\* the call rewrite_urls(content, content_type)
RewriteUrlsCall ==
    /\ u_pc = "called"
    /\ LET r == rewrite_urls(u_content, u_type)
       IN  IF r.raised
           THEN u_pc' = "raised" /\ UNCHANGED u_out
           ELSE u_pc' = "returned" /\ u_out' = r.bytes
    /\ UNCHANGED <<u_content, u_type, codecVars, pipeVars, htmlVars, proxyVars, llmVars>>

InitUrls ==
    /\ CodecIdle
    /\ PipeIdle
    /\ HtmlIdle
    /\ ProxyIdle
    /\ LlmIdle
    /\ u_pc = "called"
    /\ u_content \in UrlContents
    /\ u_type \in ContentTypes
    /\ u_out = <<>>

NextUrls == RewriteUrlsCall

SpecUrls == InitUrls /\ [][NextUrls]_vars

----------------------------------------------------------------------------
(* The handler proxy(path) of src/proxy.py.  The path of a request is a    *)
(* sequence of pieces as the route hands it over, without the leading      *)
(* slash; a URL is a sequence of pieces too.                               *)

WIKIPEDIA_BASE == <<"https:", "//", "en.", "wikipedia.org">>

\* the URL the handler's own rewrite_urls puts in, written out in its code
ProxyOrigin == <<"http:", "//", "localhost:8000">>

\* rewrite_urls of proxy.py: as the one of html_processing, but within
\* try/except: bytes that do not decode are returned as they are
proxy_rewrite_urls(bytes, ct) ==
    IF ~IsHtmlType(ct) THEN bytes
    ELSE IF DecodeRaises(bytes) THEN bytes
    ELSE ReSub(MediaPattern, ProxyOrigin \o <<"/wikimedia">>,
             ReSub(RelativePattern, Tail(ProxyOrigin),
                 ReSub(AbsolutePattern, ProxyOrigin, bytes)))

\* the notice the placeholder puts behind the body tag
Notice(p) == <<"<notice>">> \o p \o <<"</notice>">>

\* rewrite_content_with_llm(content, content_type, path): the placeholder;
\* enabled says whether ENABLE_LLM_REWRITE is set and a client exists
rewrite_content_with_llm(bytes, ct, p, enabled) ==
    IF ~IsHtmlType(ct) THEN bytes
    ELSE IF ~enabled THEN bytes
    ELSE IF DecodeRaises(bytes) THEN bytes
    ELSE IF ~Contains(bytes, <<"<body>">>) THEN bytes
    ELSE LET at == Find(bytes, <<"<body>">>)
         IN  SubSeq(bytes, 1, at) \o Notice(p) \o SubSeq(bytes, at + 1, Len(bytes))

\* path.replace('wikimedia/', '', 1) on a path that starts with the prefix
StripPrefix(p) == Tail(p)

\* the URL to fetch, without the query string
TargetUrl(p) ==
    IF MatchAt(p, <<"wikimedia/">>, 1)
    THEN <<"https:", "//", "upload.wikimedia.org", "/">> \o StripPrefix(p)
    ELSE WIKIPEDIA_BASE \o <<"/">> \o p

\* the query string is added if there is one; request.query_string.decode()
\* raises UnicodeDecodeError on bytes that are no UTF-8
WithQuery(url, q) ==
    IF q = <<>> THEN [raised |-> FALSE, url |-> url]
    ELSE IF DecodeRaises(q) THEN [raised |-> TRUE, url |-> <<>>]
    ELSE [raised |-> FALSE, url |-> url \o <<"?">> \o q]

\* redirect('/wiki/Main_Page')
Redirect ==
    [kind |-> "redirect", status |-> 302, location |-> <<"/", "wiki/", "Main_Page">>,
     content_type |-> "text/html; charset=utf-8", body |-> <<>>,
     headers |-> {"Location"}]

\* return error_msg, 502
BadGateway(url, e) ==
    [kind |-> "error", status |-> 502, location |-> <<>>,
     content_type |-> "text/html; charset=utf-8",
     body |-> <<"Error fetching from ">> \o url \o <<": ", e>>, headers |-> {}]

safe_headers == {"Cache-Control", "Expires", "Last-Modified", "ETag"}

\* the response made of what the upstream sent
Proxied(resp, p, enabled) ==
    LET ct == IF resp.content_type = "None" THEN "text/html" ELSE resp.content_type
    IN  [kind |-> "proxied", status |-> resp.status_code, location |-> <<>>,
         content_type |-> ct,
         body |-> rewrite_content_with_llm(proxy_rewrite_urls(resp.content, ct),
                                           ct, p, enabled),
         headers |-> (resp.headers \cap safe_headers) \cup {"Content-Security-Policy"}]

\* The handler up to requests.get: the root path is answered with the
\* redirect; for every other path the URL is made and fetched, unless the
\* query string does not decode: the exception leaves the handler.
ProxyCall ==
    /\ px_pc = "called"
    /\ IF ~MatchAt(px_path, <<"wikimedia/">>, 1) /\ px_path = <<>>
       THEN /\ px_response' = Redirect
            /\ px_pc' = "responded"
            /\ UNCHANGED px_fetched
       ELSE LET target == WithQuery(TargetUrl(px_path), px_query)
            IN  IF target.raised
                THEN /\ px_pc' = "raised"
                     /\ UNCHANGED <<px_fetched, px_response>>
                ELSE /\ px_fetched' = Append(px_fetched, target.url)
                     /\ px_pc' = "fetching"
                     /\ UNCHANGED px_response
    /\ UNCHANGED <<px_path, px_query, px_llm, px_upstream>>
    /\ UNCHANGED <<codecVars, pipeVars, htmlVars, urlVars, llmVars>>

\* what the upstream may answer, redirects followed
UpstreamStatus == {200, 404, 503}

UpstreamTypes == {"None", "text/html; charset=UTF-8", "image/jpeg"}

UpstreamContents ==
    { <<Filler>>,
      <<"<body>", "https:", "//", "en.", "wikipedia.org", Filler>>,
      <<BadByte>> }

UpstreamHeaders ==
    { {}, {"Cache-Control", "ETag", "Set-Cookie"}, {"Expires", "Last-Modified"} }

\* requests.get returns and the handler builds its response
UpstreamAnswers ==
    /\ px_pc = "fetching"
    /\ \E st \in UpstreamStatus, ct \in UpstreamTypes,
          c \in UpstreamContents, hs \in UpstreamHeaders :
          /\ px_upstream' = [raised |-> FALSE, status_code |-> st, content_type |-> ct,
                             content |-> c, headers |-> hs]
          /\ px_response' = Proxied(px_upstream', px_path, px_llm)
    /\ px_pc' = "responded"
    /\ UNCHANGED <<px_path, px_query, px_llm, px_fetched>>
    /\ UNCHANGED <<codecVars, pipeVars, htmlVars, urlVars, llmVars>>

\* requests.get raises a RequestException
\* str(e) of the exceptions requests.get may raise
TransportErrors == {"ConnectionError", "Timeout"}

\* mutant: the fetch is tried a second time before the handler gives up
UpstreamFails_Retry ==
    /\ px_pc = "fetching"
    /\ \E e \in TransportErrors :
          /\ px_upstream' = [NoUpstream EXCEPT !.raised = TRUE, !.content = <<e>>]
          /\ px_response' = BadGateway(px_fetched[Len(px_fetched)], e)
    /\ px_fetched' = Append(px_fetched, px_fetched[Len(px_fetched)])
    /\ px_pc' = "responded"
    /\ UNCHANGED <<px_path, px_query, px_llm>>
    /\ UNCHANGED <<codecVars, pipeVars, htmlVars, urlVars, llmVars>>

\* requests.get raises a RequestException e; px_upstream keeps str(e) as
\* its content
UpstreamFails ==
    /\ px_pc = "fetching"
    /\ \E e \in TransportErrors :
          /\ px_upstream' = [NoUpstream EXCEPT !.raised = TRUE, !.content = <<e>>]
          /\ px_response' = BadGateway(px_fetched[Len(px_fetched)], e)
    /\ px_pc' = "responded"
    /\ UNCHANGED <<px_path, px_query, px_llm, px_fetched>>
    /\ UNCHANGED <<codecVars, pipeVars, htmlVars, urlVars, llmVars>>

\* the paths asked for
ProxyPaths ==
    { <<>>,
      <<"wiki/", "Cat">>,
      <<"w/", "index.php">>,
      <<"wikimedia/", "wikipedia/commons/", "cat.jpg">>,
      <<"wikimedia/", "wikimedia/", "cat.jpg">>,
      <<"wikimedia/">>,
      <<"wiki/", "wikimedia/", "Cat">>,
      <<"wikimedia">> }

\* the query strings: none, one parameter, two, one with a byte that is no
\* UTF-8
Queries ==
    { <<>>, <<"search=Cat">>, <<"search=Cat", "&", "title=Special:Search">>,
      <<"search=", BadByte>> }

InitProxy ==
    /\ CodecIdle
    /\ PipeIdle
    /\ HtmlIdle
    /\ UrlsIdle
    /\ LlmIdle
    /\ px_pc = "called"
    /\ px_path \in ProxyPaths
    /\ px_query \in Queries
    /\ px_llm \in BOOLEAN
    /\ px_fetched = <<>>
    /\ px_upstream = NoUpstream
    /\ px_response = NoResponse

NextProxy == ProxyCall \/ UpstreamAnswers \/ UpstreamFails

SpecProxy == InitProxy /\ [][NextProxy]_vars

----------------------------------------------------------------------------
(* llm.py: the client all transformer calls share.  rewrite_content calls  *)
(* get_async_client before its first await, and get_async_client awaits    *)
(* nothing, so within the event loop a call runs from entry to return      *)
(* with no other task in between.                                          *)

\* the tasks that call
MaxCallers == 3

\* most calls in one run
MaxCalls == 5

Callers == 1..MaxCallers

\* mutant: an instance is made at every call
GetAsyncClient_NoCache(t) ==
    /\ Len(client_returns) < MaxCalls
    /\ constructions' = constructions + 1
    /\ async_client' = constructions + 1
    /\ client_returns' = Append(client_returns, <<t, async_client'>>)
    /\ UNCHANGED <<mt_pc, mt_len, mt_out, codecVars, pipeVars, htmlVars, urlVars, proxyVars>>

\* get_async_client() called by task t: the instance is made if there is
\* none, and the one instance is returned
GetAsyncClient(t) ==
    /\ Len(client_returns) < MaxCalls
    /\ IF async_client = 0
       THEN /\ constructions' = constructions + 1
            /\ async_client' = constructions + 1
       ELSE UNCHANGED <<constructions, async_client>>
    /\ client_returns' = Append(client_returns, <<t, async_client'>>)
    /\ UNCHANGED <<mt_pc, mt_len, mt_out, codecVars, pipeVars, htmlVars, urlVars, proxyVars>>

InitClient ==
    /\ CodecIdle
    /\ PipeIdle
    /\ HtmlIdle
    /\ UrlsIdle
    /\ ProxyIdle
    /\ LlmIdle

NextClient == \E t \in Callers : GetAsyncClient(t)

SpecClient == InitClient /\ [][NextClient]_vars

----------------------------------------------------------------------------
(* llm.py: calculate_max_tokens, a function of the length of its input *)

MAX_MODEL_TOKENS == 64000

\* int(x * 1.5) for an integer x >= 0: the product is exact in floating
\* point for every length in reach, and int() drops the half
TimesOneAndAHalf(x) == (3 * x) \div 2

Min(a, b) == IF a <= b THEN a ELSE b

calculate_max_tokens(len) ==
    LET estimated_input_tokens == len \div 4
    IN  Min(TimesOneAndAHalf(estimated_input_tokens), MAX_MODEL_TOKENS)

\* every length up to this one is tried
MaxSmallLen == 60

\* the lengths tried: the short ones, and long ones on both sides of the cap
TextLengths ==
    (0..MaxSmallLen) \cup {100, 2000, 2668, 20000, 21336, 100000, 170664, 170668, 200000}

MaxTokensCall ==
    /\ mt_pc = "called"
    /\ mt_out' = calculate_max_tokens(mt_len)
    /\ mt_pc' = "returned"
    /\ UNCHANGED <<mt_len, async_client, constructions, client_returns>>
    /\ UNCHANGED <<codecVars, pipeVars, htmlVars, urlVars, proxyVars>>

InitTokens ==
    /\ CodecIdle
    /\ PipeIdle
    /\ HtmlIdle
    /\ UrlsIdle
    /\ ProxyIdle
    /\ async_client = 0
    /\ constructions = 0
    /\ client_returns = <<>>
    /\ mt_pc = "called"
    /\ mt_len \in TextLengths
    /\ mt_out = 0

NextTokens == MaxTokensCall

SpecTokens == InitTokens /\ [][NextTokens]_vars

----------------------------------------------------------------------------
(* The codec on its own: encode a list of segment strings and decode it,   *)
(* or decode an arbitrary reply of the transformer.                        *)

\* segment strings a batch may carry; the last one holds a marker
CodecStrings ==
    { <<>>, <<TXT(1)>>, <<POPEN, TXT(2), PCLOSE>>, <<POPEN>> \o Separator(0) \o <<PCLOSE>> }

\* longest reply, counted in items (a marker or a piece of text)
MaxReplyItems == 4

ReplyItems == { <<TXT(1)>> } \cup { Separator(i) : i \in 0..(MaxBatch - 1) }

CodecReplies == { Join(r) : r \in SeqsUpTo(ReplyItems, MaxReplyItems) }

InitCodec ==
    /\ PipeIdle
    /\ UrlsIdle
    /\ LlmIdle
    /\ ProxyIdle
    /\ HtmlIdle
    /\ cpc = "start"
    /\ cout = <<>>
    /\ \/ /\ cparts \in UNION { [1..m -> CodecStrings] : m \in 1..MaxBatch }
          /\ cn = Len(cparts)
          /\ cresp = <<>>
       \/ /\ cparts = <<>>
          /\ cn \in 1..MaxBatch
          /\ cresp \in CodecReplies

\* the batch window builds the combined payload
CodecEncode ==
    /\ cpc = "start"
    /\ cparts # <<>>
    /\ cresp' = EncodeBatch(cparts)
    /\ cpc' = "encoded"
    /\ UNCHANGED <<cparts, cn, cout>>
    /\ UNCHANGED <<pipeVars, htmlVars, urlVars, proxyVars, llmVars>>

\* split_batch_result on the payload itself or on a reply
CodecDecode ==
    /\ \/ cpc = "encoded"
       \/ cpc = "start" /\ cparts = <<>>
    /\ cout' = split_batch_result(cresp, cn)
    /\ cpc' = "decoded"
    /\ UNCHANGED <<cparts, cn, cresp>>
    /\ UNCHANGED <<pipeVars, htmlVars, urlVars, proxyVars, llmVars>>

NextCodec == CodecEncode \/ CodecDecode

SpecCodec == InitCodec /\ [][NextCodec]_vars

----------------------------------------------------------------------------
(* Claims about the batch codec (checked under SpecCodec) *)

\* number of occurrences of sep in s
Count(s, sep) == Cardinality({i \in 1..Len(s) : MatchAt(s, sep, i)})

\* no part holds the marker text '<!-- SECTION_BREAK_'
MarkerFree(parts) == \A k \in 1..Len(parts) : ~Contains(parts[k], <<PRE>>)

RoundTripDone == cpc = "decoded" /\ cparts # <<>> /\ MarkerFree(cparts)

ExactMarkers(reply, n) ==
    /\ \A i \in 0..(n - 2) : Count(reply, Separator(i)) = 1
    /\ \A i \in (n - 1)..(MaxBatch - 1) : Count(reply, Separator(i)) = 0

ReplyDecoded == cpc = "decoded" /\ cparts = <<>> /\ cn >= 2

\* C8: for a batch of n segments, a reply that does not hold exactly the
\* markers SECTION_BREAK_0 .. SECTION_BREAK_{n-2}, each once, is not decoded
\* into n pieces (so the batch falls back to the originals).
C8_MarkerCountChecked ==
    (ReplyDecoded /\ ~ExactMarkers(cresp, cn)) => Len(cout) # cn

\* split_batch_result has run on a reply for n >= 2 sections
DecodedFor2 == cpc = "decoded" /\ cn >= 2

\* each of the markers 0 .. n-2 stands in the reply at least once
AllMarkersIn(reply, n) == \A i \in 0..(n - 2) : Count(reply, Separator(i)) >= 1

\* C27: for n >= 2, split_batch_result(response, n) returns exactly n
\* pieces if and only if each of the markers SECTION_BREAK_0 ..
\* SECTION_BREAK_{n-2} occurs at least once in the response; if any of them
\* is missing it returns fewer than n pieces, and it never returns more
\* than n.
C27_PieceCount ==
    DecodedFor2 =>
        /\ Len(cout) <= cn
        /\ Len(cout) = cn <=> AllMarkersIn(cresp, cn)
        /\ ~AllMarkersIn(cresp, cn) => Len(cout) < cn

\* a reply for 3 sections that holds marker 0 twice and marker 1 once: 3
\* pieces come back
C27_Witness ==
    /\ DecodedFor2
    /\ cparts = <<>>
    /\ cn = 3
    /\ Count(cresp, Separator(0)) = 2
    /\ Count(cresp, Separator(1)) = 1
    /\ Count(cresp, Separator(2)) = 0
    /\ Len(cout) = 3

----------------------------------------------------------------------------
(* Claims about the classifier (checked under SpecClassify) *)

\* the segment indices a task covers
Covered(task) == {task.section_indices[k] : k \in 1..Len(task.section_indices)}

\* the tasks that cover segment idx
TasksOf(idx) == {t \in 1..Len(process_tasks) : idx \in Covered(process_tasks[t])}

\* how often idx stands in the index list of a task
TimesIn(task, idx) ==
    Cardinality({k \in 1..Len(task.section_indices) : task.section_indices[k] = idx})

MinIndex(task) == CHOOSE m \in Covered(task) : \A x \in Covered(task) : m <= x

SegmentIndices == 0..(Len(sections) - 1)

\* C1: the classifier puts every segment index into exactly one task (skip,
\* batch or individual), and the tasks are produced in non-decreasing order
\* of the smallest segment index each covers.
C1_OneTaskPerSegment ==
    /\ pc = "classify" =>
          \A idx \in SegmentIndices :
              Cardinality(TasksOf(idx)) = (IF idx < loop_i THEN 1 ELSE 0)
    /\ pc = "classified" =>
          \A idx \in SegmentIndices : Cardinality(TasksOf(idx)) = 1
    /\ \A t \in 1..Len(process_tasks) :
          /\ process_tasks[t].type \in {"skip", "batch", "individual"}
          /\ Covered(process_tasks[t]) # {}
          /\ Covered(process_tasks[t]) \subseteq SegmentIndices
          /\ \A idx \in Covered(process_tasks[t]) : TimesIn(process_tasks[t], idx) = 1
          /\ t > 1 => MinIndex(process_tasks[t - 1]) <= MinIndex(process_tasks[t])

C1_Witness ==
    /\ pc = "classified"
    /\ Len(sections) = MaxSections + 1
    /\ \E a, b, c \in 1..Len(process_tasks) :
          /\ process_tasks[a].type = "skip"
          /\ process_tasks[b].type = "batch"
          /\ process_tasks[c].type = "individual"

\* In a document of the classifier's specification child 1 is the intro's
\* paragraph, child 2 * idx the heading of section idx and child 2 * idx + 1
\* its paragraph.
RawHeading(idx) == IF idx = 0 THEN "" ELSE doc[2 * idx].head
VisibleLen(idx) == doc[2 * idx + 1].vis

\* the heading texts that are, whatever the case of their letters, in the
\* boilerplate set
BoilerplateAnyCase == {"references", "References", "REFERENCES", "see also", "See also"}

TypeOf(idx) == process_tasks[CHOOSE t \in TasksOf(idx) : TRUE].type

SmallSegment(idx) ==
    /\ idx \in SegmentIndices
    /\ RawHeading(idx) \notin BoilerplateAnyCase
    /\ VisibleLen(idx) >= 50
    /\ VisibleLen(idx) < 500

\* s .. s+5 are six small segments in a row, with no small segment before
\* or after them
RunOfSix(s) ==
    /\ \A d \in 0..5 : SmallSegment(s + d)
    /\ ~SmallSegment(s - 1)
    /\ ~SmallSegment(s + 6)

\* C6: six consecutive non-skipped segments below SMALL_SECTION_THRESHOLD
\* give exactly 2 tasks, a batch of the first 5 and an individual task for
\* the 6th; no batch covers more than 5 segments.
C6_BatchCap ==
    pc = "classified" =>
        /\ \A t \in 1..Len(process_tasks) :
              process_tasks[t].type = "batch" =>
                  /\ Len(process_tasks[t].section_indices) <= 5
                  /\ process_tasks[t].num_sections = Len(process_tasks[t].section_indices)
        /\ \A s \in SegmentIndices :
              RunOfSix(s) =>
                  \E t \in 1..(Len(process_tasks) - 1) :
                      /\ UNION {TasksOf(s + d) : d \in 0..5} = {t, t + 1}
                      /\ process_tasks[t].type = "batch"
                      /\ process_tasks[t].section_indices = <<s, s + 1, s + 2, s + 3, s + 4>>
                      /\ process_tasks[t + 1].type = "individual"
                      /\ process_tasks[t + 1].section_indices = <<s + 5>>

C6_Witness ==
    /\ pc = "classified"
    /\ RunOfSix(0)
    /\ Len(process_tasks) = 2
    /\ process_tasks[1].type = "batch"
    /\ process_tasks[2].type = "individual"

\* the task that covers segment idx
TaskOf(idx) == process_tasks[CHOOSE t \in TasksOf(idx) : TRUE]

\* the last segment a task covers
LastIndex(task) == task.section_indices[Len(task.section_indices)]

----------------------------------------------------------------------------
(* Claims about the whole call (checked under Spec) *)

\* gather has returned and the results are mapped back to the sections
Mapped == pc \in {"insert", "remove", "done"}

\* the tasks exist as asyncio tasks
Dispatched == pc = "gather" \/ Mapped

Original(idx) == Sec(sections, idx).html

TaskNumbers == 1..Len(process_tasks)

\* where segment n (from 1) owns the node id: the places in its owned list
OwnedAt(n, id) ==
    {k \in 1..Len(sections[n].elements_to_remove) : sections[n].elements_to_remove[k] = id}

\* how often the node id is owned, all segments taken together
TimesOwned(id) ==
    Cardinality(UNION {{<<n, k>> : k \in OwnedAt(n, id)} : n \in 1..Len(sections)})

\* every node some segment owns
OwnedIds ==
    UNION {{sections[n].elements_to_remove[k] :
                k \in 1..Len(sections[n].elements_to_remove)} : n \in 1..Len(sections)}

\* the container's children that are no heading divs
PlainChildren == {doc[c].id : c \in {k \in 1..Len(doc) : ~IsHeadingDiv(doc[k])}}

\* C10: the owned-node lists of all segments together hold every child of
\* the container that is not a heading div exactly once: no child is missing
\* from all segments, no node is owned twice, and nothing else is owned.
C10_Partition ==
    sections # <<>> =>
        /\ OwnedIds = PlainChildren
        /\ \A id \in PlainChildren : TimesOwned(id) = 1

\* the payload of a task, built from the segments it covers
PayloadOf(task) ==
    IF task.type = "batch"
    THEN EncodeBatch([k \in 1..Len(task.section_indices) |-> Original(task.section_indices[k])])
    ELSE Original(task.section_indices[1])

\* the invocations made for task t
CallsOf(t) == {c \in 1..Len(update_calls) : update_calls[c].task = t}

\* a segment with a boilerplate heading or with too little visible text
SkippedSegment(idx) ==
    \/ Sec(sections, idx).heading_text \in SKIP_SECTIONS
    \/ Sec(sections, idx).text_length < TINY_SECTION_THRESHOLD

PlaceIn(task, idx) ==
    CHOOSE k \in 1..Len(task.section_indices) : task.section_indices[k] = idx

\* the call of task t raised
Failed(t) == replies[t].kind = "error"

\* what segment idx gets from task u when the call of u went as it did, no
\* matter how the calls of the other tasks went
OwnOutcome(u, idx) ==
    LET task == process_tasks[u]
        own == IF task.type = "batch" THEN BatchResult(task, replies[u].html)
               ELSE IndividualResult(task, replies[u].html)
    IN  IF task.type = "skip" THEN Original(idx)
        ELSE own.results[PlaceIn(task, idx)]

\* the other tasks' segments have what their own calls gave them
OthersUnaffected(t) ==
    \A u \in TaskNumbers \ {t} :
        ~Failed(u) => \A idx \in Covered(process_tasks[u]) : FinalHtml(idx) = OwnOutcome(u, idx)

\* C2: when the transformer call of a task raises, every segment the task
\* covers gets its own original html as final html, the final html of the
\* segments of every other task is what it is without the failure, and the
\* call returns a document instead of raising.
C2_FailureIsolation ==
    Mapped =>
        \A t \in TaskNumbers :
            Failed(t) =>
                /\ \A idx \in Covered(process_tasks[t]) : FinalHtml(idx) = Original(idx)
                /\ OthersUnaffected(t)
                /\ pc = "done" => outcome = "returned"

\* the reply to batch task t does not split into one piece per segment
DecodeFailed(t) ==
    /\ process_tasks[t].type = "batch"
    /\ replies[t].kind = "ok"
    /\ Len(split_batch_result(replies[t].html, process_tasks[t].num_sections))
          # process_tasks[t].num_sections

\* C9: when the reply to a batch does not decode, the task is marked
\* unsuccessful, every segment of the batch gets exactly its own original
\* html as final html, the other tasks' results are unaffected and no error
\* reaches the caller.
C9_FallbackOriginals ==
    Dispatched =>
        \A t \in TaskNumbers :
            DecodeFailed(t) =>
                /\ task_results[t].set /\ ~task_results[t].success
                /\ task_results[t].results =
                      [k \in 1..Len(process_tasks[t].section_indices) |->
                          Original(process_tasks[t].section_indices[k])]
                /\ Mapped =>
                      /\ \A idx \in Covered(process_tasks[t]) : FinalHtml(idx) = Original(idx)
                      /\ OthersUnaffected(t)
                /\ pc = "done" => outcome = "returned"

\* the tasks whose result wrote the slot of segment idx
WritersOf(idx) == {w[1] : w \in WritesTo(task_results, idx)}

\* what the transformer gave for the segments of task t: its reply, and the
\* pieces the reply splits into
TransformerOutput(t) ==
    IF replies[t].kind # "ok" THEN {}
    ELSE IF process_tasks[t].type = "batch"
         THEN LET pieces == split_batch_result(replies[t].html, process_tasks[t].num_sections)
              IN  {pieces[k] : k \in 1..Len(pieces)}
         ELSE {replies[t].html}

\* C3: after all tasks have resolved section_results has an entry for every
\* segment index, each entry is written by exactly one task, and each entry
\* is the segment's original html or output of the transformer call of the
\* task that covers the segment; an entry no task wrote is the original.
C3_ResultMapping ==
    Mapped =>
        /\ Len(section_results) = Len(sections)
        /\ \A idx \in SegmentIndices :
              /\ Cardinality(WritersOf(idx)) = 1
              /\ Cardinality(WritesTo(task_results, idx)) = 1
              /\ WritersOf(idx) = TasksOf(idx)
              /\ \/ FinalHtml(idx) = Original(idx)
                 \/ \E t \in TasksOf(idx) : FinalHtml(idx) \in TransformerOutput(t)

\* the segment whose round of the loop of phase 3 is about to insert
InsertingSegment == Sec(sections, seg_k)

\* the anchor the new nodes of a segment are put at; 0 stands for the
\* container itself
AnchorOf(section) ==
    IF section.type = "intro" THEN section.insert_before ELSE section.insert_after

\* C11: when the replacement nodes of a segment are inserted none of the
\* segment's owned nodes has been removed yet, and the anchor that is used
\* is still attached to the document: no removal step before has taken it
\* out.
C11_AnchorAttached ==
    (pc = "insert" /\ seg_k < Len(sections)) =>
        /\ \A k \in 1..Len(InsertingSegment.elements_to_remove) :
              InsertingSegment.elements_to_remove[k] \notin decomposed
        /\ NewNodes(FinalHtml(seg_k), seg_k) # <<>> =>
              AnchorOf(InsertingSegment) \notin decomposed

\* what segment idx gets, told from the outcome of the call of its task
\* alone: the original if the call raised, else what the reply gives
ByReply(idx) ==
    LET t == CHOOSE u \in TasksOf(idx) : TRUE
    IN  IF Failed(t) THEN Original(idx) ELSE OwnOutcome(t, idx)

\* the heading divs among nodes, as the sequence of their identities
HeadingIds(nodes) ==
    LET IsOriginalHeading(node) == \E c \in 1..Len(doc) : IsHeadingDiv(doc[c]) /\ doc[c].id = node.id
    IN  Ids(SelectSeq(nodes, IsOriginalHeading))

\* the new nodes of segment k stand in the tree from position p + 1 on
StandBehind(p, k) ==
    LET new == NewNodes(FinalHtml(k), k)
    IN  /\ p + Len(new) <= Len(tree)
        /\ \A q \in 1..Len(new) : tree[p + q] = new[q]

\* the new nodes of segment k stand at the segment's anchor: behind the
\* heading div of a section, before the first heading div for the intro, at
\* the head of the container if there is no heading div
AtOwnAnchor(k) ==
    LET section == Sec(sections, k)
        new == NewNodes(FinalHtml(k), k)
    IN  IF section.type = "intro"
        THEN IF section.insert_before = 0 THEN StandBehind(0, k)
             ELSE /\ PosIn(tree, section.insert_before) > Len(new)
                  /\ StandBehind(PosIn(tree, section.insert_before) - Len(new) - 1, k)
        ELSE /\ PosIn(tree, section.insert_after) # 0
             /\ StandBehind(PosIn(tree, section.insert_after), k)

\* a segment whose anchor is no child of the container and whose final html
\* has nodes to insert
DetachedInsert(idx) ==
    /\ AnchorOf(Sec(sections, idx)) # 0
    /\ PosIn(doc, AnchorOf(Sec(sections, idx))) = 0
    /\ ParseFrom(ByReply(idx), 1) # <<>>

\* C12: for a fixed document and fixed outcomes of the calls the result does
\* not depend on the order in which the calls complete: the final html of
\* every segment is told by the outcome of its own task's call, whether the
\* call returns a document is told by the document and these outcomes, and
\* in the document returned every segment's final html stands at its own
\* anchor and the heading divs keep their original order.
C12_OrderIndependent ==
    /\ Mapped => \A idx \in SegmentIndices : FinalHtml(idx) = ByReply(idx)
    /\ (pc = "done" /\ container = "both") =>
          /\ outcome = "raised" <=> \E idx \in SegmentIndices : DetachedInsert(idx)
          /\ outcome = "returned" =>
                /\ HeadingIds(tree) = HeadingIds(doc)
                /\ \A idx \in SegmentIndices :
                      NewNodes(FinalHtml(idx), idx) # <<>> => AtOwnAnchor(idx)

\* three calls ended in the order 3, 1, 2 and the document came back
C12_Witness ==
    /\ pc = "done"
    /\ outcome = "returned"
    /\ completed = <<3, 1, 2>>
    /\ \E t \in TaskNumbers : replies[t].kind = "ok" /\ replies[t].html # <<>>
    /\ \E t \in TaskNumbers : replies[t].kind = "error"

\* the tasks whose call of the transformer is out and not answered
Outstanding == {t \in TaskNumbers : tstate[t] = "waiting"}

\* the next task to be started: the first that is not started yet
NextToStart(t) == tstate[t] = "new" /\ \A u \in 1..(t - 1) : tstate[u] # "new"

\* C13: the tasks are started together.  The task next in the list can be
\* started whatever calls are still outstanding, so no call waits for
\* another call to complete; a skip task never has a call out and is over
\* as soon as it is started.
C13_StartedTogether ==
    pc = "gather" =>
        \A t \in TaskNumbers :
            /\ NextToStart(t) => ENABLED TaskStart(t)
            /\ process_tasks[t].type = "skip" =>
                  /\ tstate[t] \in {"new", "done"}
                  /\ CallsOf(t) = {}

\* the calls of all non-skip tasks, three of them, are outstanding at the
\* same time, and a skip task is over
C13_Witness ==
    /\ pc = "gather"
    /\ Cardinality(Outstanding) >= 3
    /\ Outstanding = {t \in TaskNumbers : process_tasks[t].type # "skip"}
    /\ \E t \in TaskNumbers : process_tasks[t].type = "skip" /\ tstate[t] = "done"

\* every segment's final html is its original html
AllFinalOriginal ==
    \A k \in 0..(Len(sections) - 1) : FinalHtml(k) = Original(k)

\* the children as they read: what each is and its html, whatever node
\* object stands for it
Shape(t) == [k \in 1..Len(t) |-> <<t[k].kind, t[k].html>>]

\* C18: if every segment's final HTML equals its original HTML, the
\* reassembled content container has the same children in the same order as
\* the original document: nothing is duplicated, dropped or moved.
C18_IdentityReassembly ==
    (pc = "done" /\ container = "both" /\ Mapped /\ AllFinalOriginal) =>
        (outcome = "returned" /\ Shape(tree) = Shape(doc))

\* the places among the container's children where a heading div stands
TopHeadings == {c \in 1..Len(doc) : doc[c].kind = "heading"}

\* the n-th of them in document order
NthTopHeading(n) ==
    CHOOSE c \in TopHeadings : Cardinality({b \in TopHeadings : b <= c}) = n

\* C24: the segmenter yields exactly one intro segment with index 0, then
\* exactly one section segment per heading div that is a direct child of
\* the container, indexed 1..N in document order; a heading div nested in a
\* non-heading child yields no segment of its own.
C24_SegmentPerTopHeading ==
    sections # <<>> =>
        /\ Len(sections) = 1 + Cardinality(TopHeadings)
        /\ sections[1].type = "intro" /\ sections[1].index = 0
        /\ \A n \in 1..(Len(sections) - 1) :
              /\ sections[n + 1].type = "section"
              /\ sections[n + 1].index = n
              /\ n <= Cardinality(TopHeadings) =>
                    sections[n + 1].insert_after = doc[NthTopHeading(n)].id

\* the most tasks a request of the model can have: one per segment
MostTasks == MaxHeadings + 1

\* C25: the number of transformer calls in flight at the same time never
\* exceeds a fixed bound that does not depend on the number of tasks of the
\* request: a pool or semaphore smaller than the task count limits the
\* fan-out, so the calls in flight never number as many as the most tasks
\* a request can have.
C25_BoundedFanOut == Dispatched => Cardinality(Outstanding) < MostTasks

\* the transformer returned the empty string for the individual task t
EmptyReply(t) ==
    /\ process_tasks[t].type = "individual"
    /\ replies[t] = [kind |-> "ok", html |-> <<>>]

\* the node id stands in the tree, as a child of the container or below one
InTree(id) ==
    \E c \in 1..Len(tree) :
        \/ tree[c].id = id
        \/ \E q \in 1..Len(tree[c].nest) : tree[c].nest[q].id = id

\* the nodes phase 3 made of the final html of segment idx
InsertedFor(idx) == {c \in 1..Len(tree) : tree[c].id \div 100 = idx + 1}

\* phase 3 is through with segment idx
RoundOver(idx) == Mapped /\ seg_k > idx

\* C28: when the transformer returns an empty string for an individual
\* task without raising, the empty output is accepted as a success: the
\* segment's final HTML is the empty string and not its original HTML, so
\* reassembly removes the segment's owned nodes and inserts nothing in
\* their place.
C28_EmptyOutput ==
    Mapped =>
        \A t \in TaskNumbers :
            EmptyReply(t) =>
                LET idx == process_tasks[t].section_indices[1]
                    owned == Sec(sections, idx).elements_to_remove
                IN  /\ task_results[t].success
                    /\ section_results[idx + 1] = [set |-> TRUE, html |-> <<>>]
                    /\ FinalHtml(idx) = <<>>
                    /\ Original(idx) # <<>>
                    /\ InsertedFor(idx) = {}
                    /\ RoundOver(idx) => \A k \in 1..Len(owned) : ~InTree(owned[k])

\* a heading div is the very first child of the container
HeadingFirst == doc # <<>> /\ doc[1].kind = "heading"

\* C29: when a heading div is the very first child of the container, the
\* segmenter still yields an intro segment at index 0 with empty HTML and no
\* owned nodes; it is classified as a skip task, never sent to the
\* transformer, and reassembly inserts and removes nothing for it, while
\* the section indices still start at 1.
C29_EmptyIntro ==
    (HeadingFirst /\ sections # <<>>) =>
        /\ sections[1].type = "intro" /\ sections[1].index = 0
        /\ sections[1].html = <<>>
        /\ sections[1].elements_to_remove = <<>>
        /\ Len(sections) >= 2
        /\ sections[2].type = "section" /\ sections[2].index = 1
        /\ sections[2].insert_after = doc[1].id
        /\ (pc = "classify" /\ loop_i = 0) => process_tasks = <<>>
        /\ process_tasks # <<>> =>
              /\ process_tasks[1].type = "skip"
              /\ process_tasks[1].section_indices = <<0>>
              /\ \A t \in 2..Len(process_tasks) : 0 \notin Covered(process_tasks[t])
        /\ \A c \in 1..Len(update_calls) : update_calls[c].task # 1
        /\ Mapped =>
              /\ FinalHtml(0) = <<>>
              /\ InsertedFor(0) = {}
              /\ (seg_k = 0 \/ (seg_k = 1 /\ pc = "insert")) => tree = doc

\* the call has returned a document whose intro was empty and whose
\* section went to the transformer
C29_Witness ==
    /\ HeadingFirst
    /\ pc = "done" /\ outcome = "returned"
    /\ Len(sections) = 3
    /\ sections[1].html = <<>>
    /\ Len(update_calls) >= 1

----------------------------------------------------------------------------
(* Claims about process_html (checked under SpecHtml) *)

\* the pipeline was entered and the page has no content container
EnteredWithoutContainer == container # "both" /\ pc # "idle"

TypeHasTextHtml == content_type \in {"text/html", "text/html; charset=UTF-8"}

\* the path starts with /wiki/ or wiki/
PathHasContentPrefix ==
    \/ Len(path) >= 2 /\ path[1] = "/" /\ path[2] = "wiki/"
    \/ Len(path) >= 1 /\ path[1] = "wiki/"

PathHasColon == \E i \in 1..Len(path) : path[i] = ":"

\* the request qualifies for the transformation
Qualifies == TypeHasTextHtml /\ PathHasContentPrefix /\ ~PathHasColon

\* C15: process_html runs the pipeline if and only if the content type
\* contains text/html, the path starts with /wiki/ or wiki/ and holds no
\* ':'; in every other case it returns the URL-rewritten content, and
\* neither the segmenter nor the transformer is invoked.
C15_PathGating ==
    ph_pc # "called" =>
        /\ pipe_runs = (IF Qualifies THEN 1 ELSE 0)
        /\ ~Qualifies =>
              /\ ph_pc = "returned"
              /\ ph_out.set
              /\ ~rewrite_urls(content, content_type).raised
              /\ ph_out.outside = rewrite_urls(content, content_type).bytes
              /\ ph_out.children = doc
              /\ pc = "idle" /\ sections = <<>> /\ update_calls = <<>>

----------------------------------------------------------------------------
(* Claims about rewrite_urls (checked under SpecUrls) *)

\* the content type given is one of HTML
GivenHtml == u_type \in {"text/html", "text/html; charset=UTF-8"}

\* the bytes given are no valid UTF-8
GivenInvalid == \E i \in 1..Len(u_content) : u_content[i] = BadByte

\* C16: when the bytes given to html_processing.rewrite_urls with an HTML
\* content type are not valid UTF-8, it returns the original bytes unchanged
\* and does not raise.
C16_InvalidBytesReturned ==
    (u_pc # "called" /\ GivenHtml /\ GivenInvalid) =>
        (u_pc = "returned" /\ u_out = u_content)

\* the subdomains of the upstream
Subdomains == {"en.", "zh-yue."}

\* the prefixes of the upstream: absolute, protocol-relative, media
AbsolutePrefixes ==
    { <<sch, "//", "wikipedia.org">> : sch \in {"http:", "https:"} }
    \cup { <<sch, "//", sub, "wikipedia.org">> : sch \in {"http:", "https:"}, sub \in Subdomains }

RelativePrefixes ==
    { <<"//", "wikipedia.org">> } \cup { <<"//", sub, "wikipedia.org">> : sub \in Subdomains }

MediaPrefixes == { <<sch, "//", "upload.wikimedia.org">> : sch \in {"http:", "https:"} }

UpstreamPrefixes == AbsolutePrefixes \cup RelativePrefixes \cup MediaPrefixes

HasPrefixIn(bytes, prefixes) == \E x \in prefixes : Contains(bytes, x)

\* the bytes given are one prefix and text behind it
GivenOne(prefixes) == \E x \in prefixes : u_content = x \o <<Filler>>

\* C17: on HTML content every absolute prefix of the upstream becomes the
\* proxy origin, every protocol-relative one the protocol-relative proxy
\* origin, every absolute media prefix the proxy origin and /wikimedia, and
\* none of them remains; content with none of them, and content of another
\* type, is returned byte-identical.
C17_UrlRewrite ==
    u_pc # "called" =>
        /\ ~GivenHtml => (u_pc = "returned" /\ u_out = u_content)
        /\ (GivenHtml /\ ~HasPrefixIn(u_content, UpstreamPrefixes)) =>
              (u_pc = "returned" /\ u_out = u_content)
        /\ GivenHtml =>
              /\ u_pc = "returned"
              /\ ~HasPrefixIn(u_out, UpstreamPrefixes)
              /\ GivenOne(AbsolutePrefixes) =>
                    u_out = <<"http:", "//", "localhost:8000", Filler>>
              /\ GivenOne(RelativePrefixes) =>
                    u_out = <<"//", "localhost:8000", Filler>>
              /\ GivenOne(MediaPrefixes) =>
                    u_out = <<"http:", "//", "localhost:8000", "/wikimedia", Filler>>

----------------------------------------------------------------------------
(* Claims about the handler proxy (checked under SpecProxy) *)

\* C19: every response the handler returns, whatever the path and the
\* upstream outcome (proxied response, redirect of the root path, upstream
\* failure), carries the Content-Security-Policy header.
C19_SecurityHeader ==
    px_pc = "responded" => "Content-Security-Policy" \in px_response.headers

\* the URL the route stands for, without the query string
RouteUrl ==
    IF Len(px_path) >= 1 /\ px_path[1] = "wikimedia/"
    THEN <<"https:", "//", "upload.wikimedia.org", "/">> \o SubSeq(px_path, 2, Len(px_path))
    ELSE <<"https:", "//", "en.", "wikipedia.org", "/">> \o px_path

QueryPart == IF px_query = <<>> THEN <<>> ELSE <<"?">> \o px_query

\* C20: an empty path yields a redirect to /wiki/Main_Page with no upstream
\* fetch; a path starting with wikimedia/ is fetched from the media upstream
\* with that prefix removed once; every other path is fetched from the
\* primary upstream at the same path; the query string, when present, is
\* appended unchanged, and the upstream status code is passed through.
C20_RouteDispatch ==
    px_pc # "called" =>
        /\ px_path = <<>> =>
              /\ px_pc = "responded"
              /\ px_response.kind = "redirect"
              /\ px_response.location = <<"/", "wiki/", "Main_Page">>
              /\ px_fetched = <<>>
        /\ px_path # <<>> =>
              /\ px_pc \in {"fetching", "responded"}
              /\ px_fetched = << RouteUrl \o QueryPart >>
              /\ (px_pc = "responded" /\ ~px_upstream.raised) =>
                    /\ px_response.kind = "proxied"
                    /\ px_response.status = px_upstream.status_code

\* the fetch of the request raised a transport error
FetchRaised == px_pc = "responded" /\ px_upstream.raised

\* C21: when the upstream fetch raises a transport error, the handler
\* answers with status 502 and a body naming the target URL and the error,
\* has made exactly one fetch attempt, and has run no rewriting step: the
\* URL of the upstream stands in the body as it was fetched.
C21_BadGateway ==
    FetchRaised =>
        /\ px_response.kind = "error"
        /\ px_response.status = 502
        /\ Len(px_fetched) = 1
        /\ px_fetched[1] = RouteUrl \o QueryPart
        /\ px_response.body =
              <<"Error fetching from ">> \o px_fetched[1] \o <<": ">> \o px_upstream.content
        /\ px_upstream.content \in {<<"ConnectionError">>, <<"Timeout">>}
        /\ ~Contains(px_response.body, <<"localhost:8000">>)
        /\ ~Contains(px_response.body, <<"<notice>">>)

C21_Witness ==
    /\ FetchRaised
    /\ px_llm
    /\ px_path = <<"wiki/", "Cat">>
    /\ px_query = <<"search=Cat">>
    /\ px_upstream.content = <<"Timeout">>

----------------------------------------------------------------------------
(* Claims about llm.py *)

\* C22: after any sequence of get_async_client calls, by whichever tasks,
\* the client has been constructed at most once and every call has returned
\* that same instance.
C22_SingletonClient ==
    /\ constructions <= 1
    /\ \A i \in 1..Len(client_returns) :
          /\ client_returns[i][2] # 0
          /\ client_returns[i][2] = client_returns[1][2]
          /\ client_returns[i][2] = async_client

\* three tasks have called, one of them twice
C22_Witness ==
    /\ Len(client_returns) >= 4
    /\ {client_returns[i][1] : i \in 1..Len(client_returns)} = 1..3
    /\ constructions = 1

\* x kept within lo..hi
Clamped(x, lo, hi) == IF x < lo THEN lo ELSE IF x > hi THEN hi ELSE x

\* C23: calculate_max_tokens(text) returns int(1.5 * (len(text) // 4))
\* clamped to 1000..8000: 100 and 2000 characters give 1000, 100000
\* characters give 8000, and 20000 characters give 7500.
C23_MaxTokens ==
    mt_pc = "returned" =>
        /\ mt_out = Clamped((3 * (mt_len \div 4)) \div 2, 1000, 8000)
        /\ mt_out >= 1000
        /\ mt_out <= 8000
        /\ mt_len \in {100, 2000} => mt_out = 1000
        /\ mt_len = 100000 => mt_out = 8000
        /\ mt_len = 20000 => mt_out = 7500

----------------------------------------------------------------------------
(* Termination (checked under SpecLive) *)

\* an iteration of the classification loop moves its index forward
LoopIndexGrows == ClassifyStep => loop_i' > loop_i

\* C30: the classification loop always terminates, its segment index
\* strictly increasing on every iteration; if every issued transformer call
\* eventually returns or raises, the call eventually gathers all task
\* results and returns a document; and the gather only completes after
\* every task has resolved.
C30_Termination ==
    /\ [][LoopIndexGrows]_vars
    /\ (pc = "classify") ~> (pc = "classified")
    /\ [](Mapped => \A t \in 1..Len(process_tasks) : tstate[t] = "done")
    /\ (pc = "classified") ~> Mapped
    /\ (pc = "classified") ~> (pc = "done" /\ outcome = "returned")

====
